---- MODULE Spec2Model ----
(***************************************************************************)
(* A model of the engines of the ahooks package:                           *)
(*   - add_from_future: find_insertion_point / _rewrite_file_with_future / *)
(*     _add_statement (src/src/ahooks/add_from_future.py);                 *)
(*   - allow_unused_required_imports: the matcher and _add_comments        *)
(*     (src/src/ahooks/hooks/allow_unused_required_imports.py);            *)
(*   - PreCommitConfigYaml.extend / append_hooks                           *)
(*     (src/src/ahooks/models/preCommitConfigYaml.py);                     *)
(*   - the matchers of allow_unused_required_imports called on their own,  *)
(*     the drivers over a batch of files, and the hook registry            *)
(*     (src/src/ahooks/models/repoConfigBlock.py);                         *)
(*   - write_atomic (src/src/ahooks/utils/_file_utils.py), env_skeleton    *)
(*     (src/src/ahooks/env_skeleton.py) and the converters between the     *)
(*     configuration objects and their YAML files                          *)
(*     (src/src/ahooks/models/converters.py).                              *)
(* Each engine has its own specification (SpecFuture, SpecAnnotate,        *)
(* SpecMerge, SpecMatch, SpecLookup, SpecDriver, SpecRegistry, SpecAtomic, *)
(* SpecSkeleton, SpecYaml, SpecExport); the variables of the other engines *)
(* stay idle.                                                              *)
(***************************************************************************)
EXTENDS Integers, Sequences, FiniteSets, TLC

\* ------------------------------------------------------------------ bounds
\* Top-level statements of a generated module text.
MaxStmts == 3
\* Invocations of _add_statement on the same file.
MaxRuns == 2
\* Statement lines of a generated syntax tree.
MaxLines == 2
\* Calls of _add_comments, each on the result of the one before.
MaxPasses == 2
\* Repos of a generated configuration document.
MaxRepos == 2
\* Hooks of the repo block handed to extend.
MaxSrcHooks == 2
\* Calls of extend on the same document.
MaxCalls == 2
\* Files of a batch handed to a driver.
MaxFiles == 3
\* HookConfigBlock constructions against one repo block.
MaxRegs == 4
\* Function definitions an import statement is nested in.
MaxDepth == 2
\* Pieces of text of a file content handed to write_atomic.
MaxPieces == 2
\* Lines of a .env file.
MaxEnvLines == 2
\* Repos of a configuration handed to dump_config.
MaxYamlRepos == 1
\* Hooks of a repo of such a configuration.
MaxYamlHooks == 1
\* Hook choices handed to get_ahook_config and dump_ahook_config.
MaxChoices == 2
\* Operations of the converters made one after the other.
MaxExportOps == 2

VARIABLES
    \* add_from_future
    file,       \* the text on disk, as str.splitlines(keepends=True) yields it
    pc,         \* position of _add_statement
    src_code,   \* the text read by the current run
    loc,        \* the _NodeLoc of the current run, or NoLoc
    pending,    \* the list elements not yet written through the open handle
    ret,        \* what _add_statement returned
    opened,     \* the current run opened the file for writing
    runs,       \* number of the current run
    prev_ret,   \* what the previous run returned
    \* allow_unused_required_imports
    tree,       \* the module handed to _add_comments: its statement lines
    reqs,       \* the required-imports set
    apc,        \* "start", "annotated" (_add_comments returned) or "raised"
    changed,    \* the flag _add_comments returned
    exc,        \* the exception _add_comments raised, "none" without one
    passes,     \* calls of _add_comments made so far
    prev_tree,  \* the tree the last call was given
    \* PreCommitConfigYaml.extend
    repos,      \* self.repos of the document extend is called on
    src,        \* the repo block handed to extend
    mpc,        \* "start", "done" (extend returned) or "raised"
    mret,       \* the sentinel extend returned
    mexc,       \* the exception extend raised, "none" without one
    warned,     \* the hook ids of the warning of the last call
    prev_repos, \* self.repos before the last call
    calls,      \* calls of extend made so far
    \* the matchers of allow_unused_required_imports, called on their own
    t_node,     \* the Import or ImportFrom handed to the matcher
    t_trailing, \* what get_trailing yields for it
    t_reqs,     \* the required-imports set
    t_need,     \* what the matcher returned
    tpc,        \* "start" or "matched"
    \* the drivers over a batch of files
    hook,       \* the hook whose driver runs
    batch,      \* the files handed to the driver, in order
    pos,        \* index of the file the driver is about to process
    written,    \* indices of the files written so far
    yielded,    \* the files the driver collected, in order
    staged,     \* indices of the files handed to `git add`
    dpc,        \* "files", "staging", "done" or "raised"
    dexc,       \* the exception that ended the driver, "none" without one
    \* RepoConfigBlock as the registry of declared hooks
    reg_hooks,  \* self.hooks of the repo block
    reg_log,    \* every HookConfigBlock constructed so far, in order
    \* the trailing-comment lookup called on its own
    w_node,     \* the import node: its ancestors and its line's comment
    w_meta,     \* the state of the get_meta handed to the lookup
    w_found,    \* position of the ancestor _line_of returned, 0 for None
    w_missing,  \* what _is_missing_whitelist_comment returned
    w_exc,      \* the exception the lookup raised, "none" without one
    wpc,        \* "start", "looked" or "tested"
    \* write_atomic
    a_fs,       \* the directory: the content of every name, Absent without a file
    a_path,     \* the path handed to write_atomic
    a_new,      \* the new_content handed to write_atomic
    a_prev,     \* the content at path when write_atomic was called
    a_buf,      \* what write_ has handed to the handle and is not yet in the file
    a_pc,       \* "start", "open", "written", "closed", "done", "failed", "stopped"
    \* env_skeleton
    e_env,      \* the lines of the .env file, each a sequence of characters
    e_skel,     \* what main wrote to the skeleton file, element by element
    e_pc,       \* "start" or "written"
    \* converters: the configuration file and the module repo block
    c_repo,       \* _module_precommit_repo.hooks
    c_cached,     \* get_module_precommit_repo has run (lru_cache)
    c_file,       \* the text at path, NoFile without a file
    c_obj,        \* the PreCommitConfigYaml at hand, NoConfig without one
    c_hooks_only, \* the hooks_only argument
    c_choices,    \* the hook choices handed over
    c_op,         \* the last operation
    c_exc,        \* the exception it raised, "none" without one
    c_ret,        \* the sentinel dump_ahook_config returned
    c_wrote,      \* the last operation wrote the file
    c_prev_file,  \* the text at path before the last operation
    c_prev_repo,  \* the module hooks once the last operation had made its
                  \* hook declarations, before it touched the file
    c_prev_op,    \* the operation before the last
    c_prev_exc,   \* the exception that one raised
    c_first,      \* the text of the first dump_config
    c_pc,         \* "start", "dumped", "loaded", "redumped", "raised"; "ready"
    c_n           \* operations made so far

futVars == <<file, pc, src_code, loc, pending, ret, opened, runs, prev_ret>>
annVars == <<tree, reqs, apc, changed, exc, passes, prev_tree>>
mrgVars == <<repos, src, mpc, mret, mexc, warned, prev_repos, calls>>
mtcVars == <<t_node, t_trailing, t_reqs, t_need, tpc>>
drvVars == <<hook, batch, pos, written, yielded, staged, dpc, dexc>>
regVars == <<reg_hooks, reg_log>>
lkpVars == <<w_node, w_meta, w_found, w_missing, w_exc, wpc>>
atmVars == <<a_fs, a_path, a_new, a_prev, a_buf, a_pc>>
envVars == <<e_env, e_skel, e_pc>>
cfgVars == <<c_repo, c_cached, c_file, c_obj, c_hooks_only, c_choices, c_op, c_exc, c_ret, c_wrote, c_prev_file, c_prev_repo, c_prev_op, c_prev_exc, c_first, c_pc, c_n>>
vars == <<futVars, annVars, mrgVars, mtcVars, drvVars, regVars, lkpVars, atmVars, envVars, cfgVars>>
\* What an action of one engine leaves alone.
notFut == <<annVars, mrgVars, mtcVars, drvVars, regVars, lkpVars, atmVars, envVars, cfgVars>>
notAnn == <<futVars, mrgVars, mtcVars, drvVars, regVars, lkpVars, atmVars, envVars, cfgVars>>
notMrg == <<futVars, annVars, mtcVars, drvVars, regVars, lkpVars, atmVars, envVars, cfgVars>>
notMtc == <<futVars, annVars, mrgVars, drvVars, regVars, lkpVars, atmVars, envVars, cfgVars>>
notDrv == <<futVars, annVars, mrgVars, mtcVars, regVars, lkpVars, atmVars, envVars, cfgVars>>
notReg == <<futVars, annVars, mrgVars, mtcVars, drvVars, lkpVars, atmVars, envVars, cfgVars>>
notLkp == <<futVars, annVars, mrgVars, mtcVars, drvVars, regVars, atmVars, envVars, cfgVars>>
notAtm == <<futVars, annVars, mrgVars, mtcVars, drvVars, regVars, lkpVars, envVars, cfgVars>>
notEnv == <<futVars, annVars, mrgVars, mtcVars, drvVars, regVars, lkpVars, atmVars, cfgVars>>
notCfg == <<futVars, annVars, mrgVars, mtcVars, drvVars, regVars, lkpVars, atmVars, envVars>>

\* ------------------------------------------------------------ module text
(* A text is the sequence of its lines.  A line records what it holds:     *)
(* kind "blank" (nothing but its line ending), "doc" (a string expression  *)
(* with text), "edoc" (a string expression whose cleaned text is empty),   *)
(* "future" (from __future__ import ...), "from" (any other from-import),  *)
(* "stmt" (any other statement), "junk" (two lines run together);          *)
(* part "only" (a one-line statement), "first"/"last" (the two lines of a  *)
(* bracketed or triple-quoted statement); nl: the line ends in a newline.  *)
Blank == [kind |-> "blank", part |-> "only", nl |-> TRUE]
FutureLine == [kind |-> "future", part |-> "only", nl |-> TRUE]

Last(s) == s[Len(s)]
Front(s) == SubSeq(s, 1, Len(s) - 1)
Min(a, b) == IF a <= b THEN a ELSE b

\* What two adjacent pieces of text read as once written one after the other.
Merge(x, y) ==
    IF y.kind = "blank" THEN [x EXCEPT !.nl = y.nl]
    ELSE [kind |-> "junk", part |-> "only", nl |-> y.nl]

Concat(a, b) ==
    IF a = <<>> THEN b
    ELSE IF b = <<>> THEN a
    ELSE IF Last(a).nl THEN a \o b
    ELSE Front(a) \o <<Merge(Last(a), Head(b))>> \o Tail(b)

\* The shapes a statement of a generated module takes: its kind, whether it
\* spans two lines and, for the first statement, whether a blank line
\* precedes it.  A string expression is a docstring only as body[0]; "future"
\* and "edoc" are one-line statements.
FirstShapes ==
    {[kind |-> k, multi |-> m, gap |-> g] :
        k \in {"doc", "from", "stmt"}, m \in BOOLEAN, g \in BOOLEAN}
    \cup {[kind |-> k, multi |-> FALSE, gap |-> g] :
        k \in {"edoc", "future"}, g \in BOOLEAN}
LaterShapes ==
    {[kind |-> k, multi |-> m, gap |-> FALSE] :
        k \in {"from", "stmt"}, m \in BOOLEAN}
    \cup {[kind |-> "future", multi |-> FALSE, gap |-> FALSE]}

StmtLines(s) ==
    (IF s.gap THEN <<Blank>> ELSE <<>>)
    \o (IF s.multi
        THEN <<[kind |-> s.kind, part |-> "first", nl |-> TRUE],
               [kind |-> s.kind, part |-> "last", nl |-> TRUE]>>
        ELSE <<[kind |-> s.kind, part |-> "only", nl |-> TRUE]>>)

RECURSIVE Render(_)
Render(stmts) ==
    IF stmts = <<>> THEN <<>>
    ELSE StmtLines(Head(stmts)) \o Render(Tail(stmts))

WithLastNl(lines, hasNl) ==
    IF lines = <<>> THEN lines
    ELSE [lines EXCEPT ![Len(lines)].nl = hasNl]

ShapeSeqs ==
    {<<>>} \cup
    UNION {{<<f>> \o t : f \in FirstShapes, t \in [1..n -> LaterShapes]} :
            n \in 0..(MaxStmts - 1)}

\* The module texts _add_statement is run on.
Texts ==
    {Render(ss) : ss \in ShapeSeqs}
    \cup {WithLastNl(Render(ss), FALSE) : ss \in ShapeSeqs \ {<<>>}}

\* ast.parse: the module body, each statement with its 1-based first and
\* last line, or a SyntaxError.
SyntaxError == [ok |-> FALSE, body |-> <<>>]

RECURSIVE ParseLines(_, _, _)
ParseLines(lines, i, acc) ==
    IF i > Len(lines) THEN [ok |-> TRUE, body |-> acc]
    ELSE LET l == lines[i] IN
        IF l.kind = "blank" THEN ParseLines(lines, i + 1, acc)
        ELSE IF l.kind = "junk" THEN SyntaxError
        ELSE IF l.part = "only" THEN
            ParseLines(lines, i + 1,
                Append(acc, [kind |-> l.kind, lineno |-> i, end_lineno |-> i]))
        ELSE IF /\ l.part = "first"
                /\ i + 1 <= Len(lines)
                /\ lines[i + 1].kind = l.kind
                /\ lines[i + 1].part = "last" THEN
            ParseLines(lines, i + 2,
                Append(acc, [kind |-> l.kind, lineno |-> i, end_lineno |-> i + 1]))
        ELSE SyntaxError

Parse(lines) == ParseLines(lines, 1, <<>>)

\* ------------------------------------------------------- add_from_future
NoLoc == [idx |-> -1, lineno |-> -1]

\* isinstance(node, ast.ImportFrom)
IsImportFrom(node) == node.kind \in {"future", "from"}

\* ast.get_docstring(mod) is truthy: body[0] is a string expression whose
\* cleaned text is not empty.
get_docstring(body) == Len(body) > 0 /\ body[1].kind = "doc"

docstring_offset(body) == IF get_docstring(body) THEN body[1].end_lineno ELSE 0

FromImports(body) == {i \in 1..Len(body) : IsImportFrom(body[i])}

FirstFrom(body) == CHOOSE i \in FromImports(body) : \A j \in FromImports(body) : i <= j

\* find_insertion_point with the scan stopping only at a from-import that is
\* not the future import: a future import followed by another from-import is
\* no longer reported as present.
find_insertion_point_skipping_future(body) ==
    LET others == {i \in FromImports(body) : body[i].kind = "from"}
        i == CHOOSE x \in others : \A y \in others : x <= y IN
    IF others # {} THEN
        [idx |-> i - 1, lineno |-> body[i].lineno + docstring_offset(body)]
    ELSE IF FromImports(body) # {} THEN NoLoc
    ELSE [idx |-> IF get_docstring(body) THEN 1 ELSE 0,
          lineno |-> docstring_offset(body)]

find_insertion_point(body) ==
    IF FromImports(body) # {} THEN
        LET i == FirstFrom(body) IN
        IF body[i].kind = "future" THEN NoLoc
        ELSE [idx |-> i - 1, lineno |-> body[i].lineno + docstring_offset(body)]
    ELSE [idx |-> IF get_docstring(body) THEN 1 ELSE 0,
          lineno |-> docstring_offset(body)]

\* f"\n{FROM_FUTURE}\n" or f"{FROM_FUTURE}\n\n": one string of two lines.
from_future(l) == IF l.idx # 0 THEN <<Blank, FutureLine>> ELSE <<FutureLine, Blank>>

\* src_code.splitlines(keepends=True): one list element per line, each with
\* the line ending it had.
splitlines(text) == [i \in 1..Len(text) |-> <<text[i]>>]

\* list.insert with the element written over the one at the index instead of
\* pushed in before it.
lines_insert_overwriting(lines, index, x) ==
    LET at == Min(index, Len(lines)) IN
    SubSeq(lines, 1, at) \o <<x>> \o SubSeq(lines, at + 2, Len(lines))

\* list.insert(index, x): the index is clamped to the length of the list.
lines_insert(lines, index, x) ==
    LET at == Min(index, Len(lines)) IN
    SubSeq(lines, 1, at) \o <<x>> \o SubSeq(lines, at + 1, Len(lines))

\* The list _rewrite_file_with_future hands to file.writelines.
lines_with_future(text, l) ==
    lines_insert(splitlines(text), l.lineno, from_future(l))

\* file.writelines(lines): the elements one after the other, nothing added
\* between them.
RECURSIVE writelines(_)
writelines(lines) ==
    IF lines = <<>> THEN <<>>
    ELSE Concat(writelines(Front(lines)), Last(lines))

\* The text _rewrite_file_with_future leaves in the file.
_rewrite_file_with_future(text, l) == writelines(lines_with_future(text, l))

\* The other engines at rest.
AnnIdle ==
    /\ tree = <<>>
    /\ reqs = {}
    /\ apc = "idle"
    /\ changed = FALSE
    /\ exc = "none"
    /\ passes = 0
    /\ prev_tree = <<>>

FutIdle ==
    /\ file = <<>>
    /\ pc = "idle"
    /\ src_code = <<>>
    /\ loc = NoLoc
    /\ pending = <<>>
    /\ ret = "unset"
    /\ opened = FALSE
    /\ runs = 0
    /\ prev_ret = "unset"

MrgIdle ==
    /\ repos = <<>>
    /\ src = [repo |-> "", hooks |-> <<>>]
    /\ mpc = "idle"
    /\ mret = "unset"
    /\ mexc = "none"
    /\ warned = <<>>
    /\ prev_repos = <<>>
    /\ calls = 0

MtcIdle ==
    /\ t_node = [type |-> "Other", names |-> {},
                 module |-> [node |-> "None", text |-> ""], relative |-> FALSE]
    /\ t_trailing = "None"
    /\ t_reqs = {}
    /\ t_need = FALSE
    /\ tpc = "idle"

DrvIdle ==
    /\ hook = "none"
    /\ batch = <<>>
    /\ pos = 0
    /\ written = {}
    /\ yielded = <<>>
    /\ staged = {}
    /\ dpc = "idle"
    /\ dexc = "none"

RegIdle ==
    /\ reg_hooks = <<>>
    /\ reg_log = <<>>

LkpIdle ==
    /\ w_node = [chain |-> <<>>, comment |-> "none"]
    /\ w_meta = "none"
    /\ w_found = -1
    /\ w_missing = FALSE
    /\ w_exc = "none"
    /\ wpc = "idle"

AtmIdle ==
    /\ a_fs = <<>>
    /\ a_path = <<>>
    /\ a_new = <<>>
    /\ a_prev = <<>>
    /\ a_buf = <<>>
    /\ a_pc = "idle"

EnvIdle ==
    /\ e_env = <<>>
    /\ e_skel = <<>>
    /\ e_pc = "idle"

CfgIdle ==
    /\ c_repo = <<>>
    /\ c_cached = FALSE
    /\ c_file = <<>>
    /\ c_obj = [repos |-> <<>>,
                minimum_pre_commit_version |-> [type |-> "missing", text |-> ""]]
    /\ c_hooks_only = FALSE
    /\ c_choices = <<>>
    /\ c_op = "none"
    /\ c_exc = "none"
    /\ c_ret = "unset"
    /\ c_wrote = FALSE
    /\ c_prev_file = <<>>
    /\ c_prev_repo = <<>>
    /\ c_prev_op = "none"
    /\ c_prev_exc = "none"
    /\ c_first = <<>>
    /\ c_pc = "idle"
    /\ c_n = 0

InitFuture ==
    /\ file \in Texts
    /\ pc = "start"
    /\ src_code = <<>>
    /\ loc = NoLoc
    /\ pending = <<>>
    /\ ret = "unset"
    /\ opened = FALSE
    /\ runs = 1
    /\ prev_ret = "unset"
    /\ AnnIdle
    /\ MrgIdle
    /\ MtcIdle
    /\ DrvIdle
    /\ RegIdle
    /\ LkpIdle
    /\ AtmIdle
    /\ EnvIdle
    /\ CfgIdle

\* _add_statement up to the call of _rewrite_file_with_future: read, parse
\* (a SyntaxError propagates), resolve, return None when nothing is to insert.
ReadAndResolve ==
    /\ pc = "start"
    /\ src_code' = file
    /\ LET mod == Parse(file) IN
        IF ~mod.ok THEN
            /\ pc' = "raised"
            /\ UNCHANGED <<loc, ret>>
        ELSE LET l == find_insertion_point(mod.body) IN
            /\ loc' = l
            /\ IF l = NoLoc
               THEN pc' = "done" /\ ret' = "None"
               ELSE pc' = "rewrite" /\ UNCHANGED ret
    /\ UNCHANGED <<file, pending, opened, runs, prev_ret>>
    /\ UNCHANGED notFut

\* path.open("w"): the file is truncated as it is opened.
OpenForWrite ==
    /\ pc = "rewrite"
    /\ file' = <<>>
    /\ pending' = lines_with_future(src_code, loc)
    /\ opened' = TRUE
    /\ pc' = "writing"
    /\ UNCHANGED <<src_code, loc, ret, runs, prev_ret>>
    /\ UNCHANGED notFut

\* file.writelines(lines): the text reaches the file an element at a time.
WriteLine ==
    /\ pc = "writing"
    /\ pending # <<>>
    /\ file' = Concat(file, Head(pending))
    /\ pending' = Tail(pending)
    /\ UNCHANGED <<pc, src_code, loc, ret, opened, runs, prev_ret>>
    /\ UNCHANGED notFut

\* Leaving the with block closes the file; _add_statement returns the path.
CloseFile ==
    /\ pc = "writing"
    /\ pending = <<>>
    /\ pc' = "done"
    /\ ret' = "path"
    /\ UNCHANGED <<file, src_code, loc, pending, opened, runs, prev_ret>>
    /\ UNCHANGED notFut

\* The process is stopped between opening the file and closing it.
Interrupt ==
    /\ pc = "writing"
    /\ pc' = "crashed"
    /\ UNCHANGED <<file, src_code, loc, pending, ret, opened, runs, prev_ret>>
    /\ UNCHANGED notFut

\* The hook runs again on the same file.
NextRun ==
    /\ pc = "done"
    /\ runs < MaxRuns
    /\ runs' = runs + 1
    /\ prev_ret' = ret
    /\ pc' = "start"
    /\ ret' = "unset"
    /\ opened' = FALSE
    /\ loc' = NoLoc
    /\ UNCHANGED <<file, src_code, pending>>
    /\ UNCHANGED notFut

NextFuture ==
    \/ ReadAndResolve
    \/ OpenForWrite
    \/ WriteLine
    \/ CloseFile
    \/ Interrupt
    \/ NextRun

SpecFuture == InitFuture /\ [][NextFuture]_vars

\* ------------------------------------------- allow_unused_required_imports
_WHITELIST_COMMENT == "# noqa: F401"

(* A syntax tree is the sequence of its statement lines.  A line has a     *)
(* container ("SimpleStatementLine", or "SimpleStatementSuite" for the     *)
(* body of a one-line compound statement such as `if x: import os`), its   *)
(* small statements, and the comment of its trailing whitespace ("none",   *)
(* the marker, or some other comment).  A small statement is an Import     *)
(* with its names, an ImportFrom with its module, or something else.  A    *)
(* name or module is a Name (`os`) or an Attribute (`os.path`); a relative *)
(* from-import has leading dots and a module that is a Name, an Attribute  *)
(* or None.                                                                *)
Nm(text) == [node |-> "Name", text |-> text]
Attr(text) == [node |-> "Attribute", text |-> text]
NoModule == [node |-> "None", text |-> ""]

Import(names) == [type |-> "Import", names |-> names, module |-> NoModule,
                  relative |-> FALSE]
ImportFrom(module, relative) ==
    [type |-> "ImportFrom", names |-> {}, module |-> module, relative |-> relative]
OtherStmt == [type |-> "Other", names |-> {}, module |-> NoModule, relative |-> FALSE]

Comments == {"none", _WHITELIST_COMMENT, "# some other comment"}

\* The strings a required-imports entry of the policy file is drawn from.
ReqStrings == {"os", "typing", "os.path"}

Bodies ==
    { <<Import({Nm("os")})>>,
      <<Import({Nm("os"), Nm("json")})>>,
      <<Import({Attr("os.path")})>>,
      <<ImportFrom(Nm("typing"), FALSE)>>,
      <<ImportFrom(Attr("os.path"), FALSE)>>,
      <<ImportFrom(Nm("typing"), TRUE)>>,
      <<OtherStmt>>,
      <<Import({Nm("os")}), ImportFrom(Nm("typing"), FALSE)>> }

StatementLines ==
    {[container |-> "SimpleStatementLine", body |-> b, comment |-> c] :
        b \in Bodies, c \in Comments}
    \cup {[container |-> "SimpleStatementSuite", body |-> <<Import({Nm("os")})>>,
           comment |-> c] : c \in {"none", _WHITELIST_COMMENT}}

Trees == UNION {[1..n -> StatementLines] : n \in 0..MaxLines}

\* A value or a raised exception.
Ok(v) == [exc |-> "none", val |-> v]
Raise(e) == [exc |-> e, val |-> FALSE]

\* _add_comments runs the transformer with mod.visit, not through a
\* MetadataWrapper: the transformer's metadata is never resolved.
MetadataResolved == FALSE

\* n.name.value: the text of a Name; for an Attribute, its left expression,
\* a node and no string.
NameValue(n) == IF n.node = "Name" THEN n.text ELSE "<cst.Name node>"

_node_names(node) == {NameValue(n) : n \in node.names}

\* The transformer's get_meta as _add_comments leaves it, and as it is once
\* the metadata is resolved.
TransformerGetMeta == IF MetadataResolved THEN "resolved" ELSE "unresolved"

\* The ancestors of the small statements of a line of a tree, nearest first.
Ancestors(line) ==
    IF line.container = "SimpleStatementLine"
    THEN <<"SimpleStatementLine", "Module">>
    ELSE <<"SimpleStatementSuite", "If", "Module">>

\* A small statement as the lookup sees it: its ancestors and the comment
\* of the trailing whitespace of its enclosing line.
NodeIn(line) == [chain |-> Ancestors(line), comment |-> line.comment]

\* The loop of _walk_back with `cur` the i-th ancestor (0: the node itself).
\* get_meta(ParentNodeProvider, cur) is self.get_metadata without default:
\* a KeyError when the metadata is not resolved, and for the Module, which
\* has no parent entry.  Yields the position of the ancestor found, 0 for
\* None.
RECURSIVE WalkFrom(_, _, _, _)
WalkFrom(chain, i, get_meta, stop_type) ==
    IF get_meta = "unresolved" \/ i >= Len(chain) THEN Raise("KeyError")
    ELSE IF chain[i + 1] = "None" THEN Ok(0)
    ELSE IF chain[i + 1] = stop_type THEN Ok(i + 1)
    ELSE WalkFrom(chain, i + 1, get_meta, stop_type)

_walk_back(chain, get_meta, stop_type) == WalkFrom(chain, 0, get_meta, stop_type)

_line_of(chain, get_meta) == _walk_back(chain, get_meta, "SimpleStatementLine")

\* The comment of the enclosing line's trailing whitespace ("none" when the
\* whitespace holds no comment), "None" without an enclosing line.
_get_trailing(node, get_meta) ==
    LET enclosing_line == _line_of(node.chain, get_meta) IN
    IF enclosing_line.exc # "none" THEN enclosing_line
    ELSE IF enclosing_line.val = 0 THEN Ok("None")
    ELSE Ok(node.comment)

\* A comment that holds the marker after some other text.
MarkerInLongerComment == "# nosec # noqa: F401"

\* _WHITELIST_COMMENT in trailing.comment.value
HasMarker(comment) == comment \in {_WHITELIST_COMMENT, MarkerInLongerComment}

\* `trailing` is what get_trailing(node) yields: an exception, "None" (no
\* enclosing line), "none" (no comment) or the comment.
_is_missing_whitelist_comment(trailing) ==
    IF trailing.exc # "none" THEN trailing
    ELSE Ok(trailing.val = "None" \/ trailing.val = "none" \/ ~HasMarker(trailing.val))

\* any(...) and _is_missing_whitelist_comment(...): get_trailing is called
\* only when a name matches.
_import_needs_whitelist(node, trailing, required_imports) ==
    IF (_node_names(node) \cap required_imports) # {}
    THEN _is_missing_whitelist_comment(trailing)
    ELSE Ok(FALSE)

_importFrom_needs_whitelist(node, trailing, required_imports) ==
    IF node.module.node # "Name" THEN Ok(FALSE)
    ELSE IF node.module.text \in required_imports
    THEN _is_missing_whitelist_comment(trailing)
    ELSE Ok(FALSE)

\* _register_import and _register_importFrom: whether the line was
\* registered.  Both pass `get_meta` to _line_of, a name the module does not
\* define: a NameError.
_register_import(line, node, required_imports) ==
    LET need == IF node.type = "Import"
                THEN _import_needs_whitelist(
                        node, _get_trailing(NodeIn(line), TransformerGetMeta),
                        required_imports)
                ELSE _importFrom_needs_whitelist(
                        node, _get_trailing(NodeIn(line), TransformerGetMeta),
                        required_imports) IN
    IF need.exc # "none" THEN need
    ELSE IF need.val THEN Raise("NameError")
    ELSE Ok(FALSE)

_with_updated_trailing(line) == [line EXCEPT !.comment = _WHITELIST_COMMENT]

\* visit_Import / visit_ImportFrom on the small statements of a line, in
\* order: the first exception ends the visit.
RECURSIVE VisitSmall(_, _, _, _)
VisitSmall(line, i, required_imports, registered) ==
    IF i > Len(line.body) THEN Ok(registered)
    ELSE IF line.body[i].type = "Other"
    THEN VisitSmall(line, i + 1, required_imports, registered)
    ELSE LET r == _register_import(line, line.body[i], required_imports) IN
         IF r.exc # "none" THEN r
         ELSE VisitSmall(line, i + 1, required_imports, registered \/ r.val)

\* leave_SimpleStatementLine, called for a SimpleStatementLine only.
leave_SimpleStatementLine(line, registered) ==
    IF line.container = "SimpleStatementLine" /\ registered
    THEN _with_updated_trailing(line)
    ELSE line

\* self.changed: set to False by __init__ and assigned nowhere else.
TransformerChanged(mod, new_mod) == FALSE

\* mod.visit(transformer): the lines in order.
RECURSIVE VisitLines(_, _, _)
VisitLines(mod, i, required_imports) ==
    IF i > Len(mod) THEN Ok(<<>>)
    ELSE LET r == VisitSmall(mod[i], 1, required_imports, FALSE) IN
         IF r.exc # "none" THEN r
         ELSE LET rest == VisitLines(mod, i + 1, required_imports) IN
              IF rest.exc # "none" THEN rest
              ELSE Ok(<<leave_SimpleStatementLine(mod[i], r.val)>> \o rest.val)

_add_comments(mod, required_imports) ==
    LET r == VisitLines(mod, 1, required_imports) IN
    IF r.exc # "none" THEN [exc |-> r.exc, new_mod |-> mod, changed |-> FALSE]
    ELSE [exc |-> "none", new_mod |-> r.val,
          changed |-> TransformerChanged(mod, r.val)]

InitAnnotate ==
    /\ tree \in Trees
    /\ reqs \in SUBSET ReqStrings
    /\ apc = "start"
    /\ changed = FALSE
    /\ exc = "none"
    /\ passes = 0
    /\ prev_tree = <<>>
    /\ FutIdle
    /\ MrgIdle
    /\ MtcIdle
    /\ DrvIdle
    /\ RegIdle
    /\ LkpIdle
    /\ AtmIdle
    /\ EnvIdle
    /\ CfgIdle

\* One call of _add_comments, on the module or on the result of the call
\* before.
AddComments ==
    /\ apc \in {"start", "annotated"}
    /\ passes < MaxPasses
    /\ LET r == _add_comments(tree, reqs) IN
        /\ apc' = IF r.exc = "none" THEN "annotated" ELSE "raised"
        /\ exc' = r.exc
        /\ tree' = r.new_mod
        /\ changed' = r.changed
    /\ prev_tree' = tree
    /\ passes' = passes + 1
    /\ UNCHANGED reqs
    /\ UNCHANGED notAnn

NextAnnotate ==
    \/ AddComments

SpecAnnotate == InitAnnotate /\ [][NextAnnotate]_vars

\* ------------------------------------------ the matchers on their own
\* The import statements the matchers are called on: `import os`,
\* `import os, json`, `import os.path`, `from typing import Any`,
\* `from os.path import join`, `from .typing import Any`, `from . import x`.
MatchNodes ==
    { Import({Nm("os")}),
      Import({Nm("os"), Nm("json")}),
      Import({Attr("os.path")}),
      ImportFrom(Nm("typing"), FALSE),
      ImportFrom(Attr("os.path"), FALSE),
      ImportFrom(Nm("typing"), TRUE),
      ImportFrom(NoModule, TRUE) }

\* What get_trailing yields: None, a whitespace without comment, a comment.
TrailingValues ==
    {"None", "none", _WHITELIST_COMMENT, MarkerInLongerComment,
     "# some other comment"}

\* Entries of required-imports: names, and a statement as the policy file
\* writes it.
MatchReqStrings == {"os", "os.path", "typing", "from typing import Any"}

InitMatch ==
    /\ t_node \in MatchNodes
    /\ t_trailing \in TrailingValues
    /\ t_reqs \in SUBSET MatchReqStrings
    /\ t_need = FALSE
    /\ tpc = "start"
    /\ FutIdle
    /\ AnnIdle
    /\ MrgIdle
    /\ DrvIdle
    /\ RegIdle
    /\ LkpIdle
    /\ AtmIdle
    /\ EnvIdle
    /\ CfgIdle

\* _import_needs_whitelist(node, get_trailing, required_imports)
ImportNeedsWhitelist ==
    /\ tpc = "start"
    /\ t_node.type = "Import"
    /\ t_need' = _import_needs_whitelist(t_node, Ok(t_trailing), t_reqs).val
    /\ tpc' = "matched"
    /\ UNCHANGED <<t_node, t_trailing, t_reqs>>
    /\ UNCHANGED notMtc

\* _importFrom_needs_whitelist(node, get_trailing, required_imports)
ImportFromNeedsWhitelist ==
    /\ tpc = "start"
    /\ t_node.type = "ImportFrom"
    /\ t_need' = _importFrom_needs_whitelist(t_node, Ok(t_trailing), t_reqs).val
    /\ tpc' = "matched"
    /\ UNCHANGED <<t_node, t_trailing, t_reqs>>
    /\ UNCHANGED notMtc

NextMatch ==
    \/ ImportNeedsWhitelist
    \/ ImportFromNeedsWhitelist

SpecMatch == InitMatch /\ [][NextMatch]_vars

\* ---------------------------------------------------- the lookup on its own
\* k function definitions around a statement, innermost first.
RECURSIVE Nest(_)
Nest(k) == IF k = 0 THEN <<>> ELSE <<"IndentedBlock", "FunctionDef">> \o Nest(k - 1)

\* Ancestors of an import: on a line of its own (`import os`), or in the
\* one-line body of a compound statement (`if x: import os`), at any depth.
Chains ==
    {<<"SimpleStatementLine">> \o Nest(k) \o <<"Module">> : k \in 0..MaxDepth}
    \cup {<<"SimpleStatementSuite", "If">> \o Nest(k) \o <<"Module">> :
            k \in 0..MaxDepth}

\* The get_meta of the transformer, metadata not resolved or resolved.
GetMetas == {"unresolved", "resolved"}

InitLookup ==
    /\ w_node \in [chain : Chains, comment : TrailingValues \ {"None"}]
    /\ w_meta \in GetMetas
    /\ w_found = -1
    /\ w_missing = FALSE
    /\ w_exc = "none"
    /\ wpc = "start"
    /\ FutIdle
    /\ AnnIdle
    /\ MrgIdle
    /\ MtcIdle
    /\ DrvIdle
    /\ RegIdle
    /\ AtmIdle
    /\ EnvIdle
    /\ CfgIdle

\* _line_of(node, get_meta)
LineOf ==
    /\ wpc = "start"
    /\ LET r == _line_of(w_node.chain, w_meta) IN
        /\ w_exc' = r.exc
        /\ w_found' = IF r.exc = "none" THEN r.val ELSE -1
    /\ wpc' = "looked"
    /\ UNCHANGED <<w_node, w_meta, w_missing>>
    /\ UNCHANGED notLkp

\* _is_missing_whitelist_comment(node, get_trailing), get_trailing being
\* _get_trailing with the get_meta.
IsMissingWhitelistComment ==
    /\ wpc = "start"
    /\ LET r == _is_missing_whitelist_comment(_get_trailing(w_node, w_meta)) IN
        /\ w_exc' = r.exc
        /\ w_missing' = r.val
    /\ wpc' = "tested"
    /\ UNCHANGED <<w_node, w_meta, w_found>>
    /\ UNCHANGED notLkp

NextLookup ==
    \/ LineOf
    \/ IsMissingWhitelistComment

SpecLookup == InitLookup /\ [][NextLookup]_vars

\* ------------------------------------------------------------ the drivers
AllowUnused == "allow-unused-required-imports"
AddFromFuture == "add-from-future"

(* A batch is the sequence of its files; a file is known by its index and  *)
(* stands for what the per-file step does with it.                         *)
(* For _process_files: "parse_error" (cst.parse_module raises),            *)
(* "annotate_error" (_add_comments raises), "unchanged" / "changed" (the   *)
(* flag of the pair _add_comments returns, taken as given).                *)
(* For main of add_from_future: "parse_error" (ast.parse raises),          *)
(* "present" (_add_statement returns None), "added" (it rewrites the file  *)
(* and returns the path).                                                  *)
FileOutcomes(h) ==
    IF h = AllowUnused
    THEN {"parse_error", "annotate_error", "unchanged", "changed"}
    ELSE {"parse_error", "present", "added"}

Batches(h) == UNION {[1..n -> FileOutcomes(h)] : n \in 0..MaxFiles}

\* git_add(path): exactly one positional argument.
git_add(paths) ==
    IF Len(paths) = 1 THEN Ok({paths[1]}) ELSE Raise("TypeError")

\* stage_if_true(cond, /, hook_name, stage_msg=_stage_msg, *paths), `extra`
\* being the positional arguments after hook_name: the first of them binds
\* to stage_msg, the rest to paths.  Yields what was staged and the
\* exception raised, if any.
stage_if_true(cond, extra) ==
    LET paths == IF extra = <<>> THEN <<>> ELSE Tail(extra)
        stage_msg_is_default == extra = <<>>
        added == git_add(paths) IN
    IF ~cond THEN [staged |-> {}, exc |-> "none"]
    ELSE IF added.exc # "none" THEN [staged |-> {}, exc |-> added.exc]
    ELSE IF ~stage_msg_is_default THEN [staged |-> added.val, exc |-> "TypeError"]
    ELSE [staged |-> added.val, exc |-> "none"]

InitDriver ==
    /\ hook \in {AllowUnused, AddFromFuture}
    /\ batch \in Batches(hook)
    /\ pos = 1
    /\ written = {}
    /\ yielded = <<>>
    /\ staged = {}
    /\ dpc = "files"
    /\ dexc = "none"
    /\ FutIdle
    /\ AnnIdle
    /\ MrgIdle
    /\ MtcIdle
    /\ RegIdle
    /\ LkpIdle
    /\ AtmIdle
    /\ EnvIdle
    /\ CfgIdle

\* One round of the loop of _process_files: read, parse, annotate, write the
\* file when the flag is set and yield it.  An exception leaves the
\* generator and the driver.
ProcessFile ==
    /\ dpc = "files"
    /\ hook = AllowUnused
    /\ pos <= Len(batch)
    /\ IF batch[pos] = "parse_error" THEN
            /\ dpc' = "raised"
            /\ dexc' = "ParserSyntaxError"
            /\ UNCHANGED <<pos, written, yielded>>
       ELSE IF batch[pos] = "annotate_error" THEN
            /\ dpc' = "raised"
            /\ dexc' = "KeyError"
            /\ UNCHANGED <<pos, written, yielded>>
       ELSE IF batch[pos] = "changed" THEN
            /\ written' = written \cup {pos}
            /\ yielded' = Append(yielded, pos)
            /\ pos' = pos + 1
            /\ UNCHANGED <<dpc, dexc>>
       ELSE /\ pos' = pos + 1
            /\ UNCHANGED <<written, yielded, dpc, dexc>>
    /\ UNCHANGED <<hook, batch, staged>>
    /\ UNCHANGED notDrv

\* changed_files = tuple(...) is complete: stage_if_true(len(changed_files)
\* > 0, "allow-unused-required-imports", *changed_files).
StageChanged ==
    /\ dpc = "files"
    /\ hook = AllowUnused
    /\ pos > Len(batch)
    /\ LET r == stage_if_true(Len(yielded) > 0, yielded) IN
        /\ staged' = r.staged
        /\ dexc' = r.exc
        /\ dpc' = IF r.exc = "none" THEN "done" ELSE "raised"
    /\ UNCHANGED <<hook, batch, pos, written, yielded>>
    /\ UNCHANGED notDrv

\* One round of the generator in main of add_from_future: _add_statement
\* on the next file; a SyntaxError of ast.parse leaves main.
AddStatement ==
    /\ dpc = "files"
    /\ hook = AddFromFuture
    /\ pos <= Len(batch)
    /\ IF batch[pos] = "parse_error" THEN
            /\ dpc' = "raised"
            /\ dexc' = "SyntaxError"
            /\ UNCHANGED <<pos, written, yielded>>
       ELSE IF batch[pos] = "added" THEN
            /\ written' = written \cup {pos}
            /\ yielded' = Append(yielded, pos)
            /\ pos' = pos + 1
            /\ UNCHANGED <<dpc, dexc>>
       ELSE /\ pos' = pos + 1
            /\ UNCHANGED <<written, yielded, dpc, dexc>>
    /\ UNCHANGED <<hook, batch, staged>>
    /\ UNCHANGED notDrv

\* stage_if_true(len(added_files) > 0, "add-from-future"): no path is given.
StageAdded ==
    /\ dpc = "files"
    /\ hook = AddFromFuture
    /\ pos > Len(batch)
    /\ LET r == stage_if_true(Len(yielded) > 0, <<>>) IN
        /\ staged' = r.staged
        /\ dexc' = r.exc
        /\ dpc' = IF r.exc = "none" THEN "done" ELSE "raised"
    /\ UNCHANGED <<hook, batch, pos, written, yielded>>
    /\ UNCHANGED notDrv

NextDriver ==
    \/ ProcessFile
    \/ StageChanged
    \/ AddStatement
    \/ StageAdded

SpecDriver == InitDriver /\ [][NextDriver]_vars

\* ----------------------------------------------------------- the registry
(* A HookConfigBlock is its id and the rest of its fields (here its name); *)
(* constructing one registers it with its repo block.                      *)
RegIds == {"add-from-future", "env-skeleton"}
RegNames == {"first wording", "second wording"}
HookBlocks == [id : RegIds, name : RegNames]

\* RepoConfigBlock.has_hook: a hook of the same id is in the list.
has_hook(hooks, hook_) == \E i \in 1..Len(hooks) : hooks[i].id = hook_.id

\* add_hook without its guard: the hook is appended whatever the list holds.
add_hook_unguarded(hooks, hook_, guard) == Append(hooks, hook_)

\* RepoConfigBlock.add_hook: self.hooks after the call.
add_hook(hooks, hook_, guard) ==
    IF guard /\ has_hook(hooks, hook_) THEN hooks ELSE Append(hooks, hook_)

\* RepoConfigBlock(repo): the hook list starts empty.
InitRegistry ==
    /\ reg_hooks = <<>>
    /\ reg_log = <<>>
    /\ FutIdle
    /\ AnnIdle
    /\ MrgIdle
    /\ MtcIdle
    /\ DrvIdle
    /\ LkpIdle
    /\ AtmIdle
    /\ EnvIdle
    /\ CfgIdle

\* HookConfigBlock(id, ..., _repo=repo): __attrs_post_init__ calls
\* self._repo.add_hook(self, guard=True).
ConstructHook ==
    /\ Len(reg_log) < MaxRegs
    /\ \E h \in HookBlocks :
        /\ reg_hooks' = add_hook(reg_hooks, h, TRUE)
        /\ reg_log' = Append(reg_log, h)
    /\ UNCHANGED notReg

NextRegistry ==
    \/ ConstructHook

SpecRegistry == InitRegistry /\ [][NextRegistry]_vars

\* ------------------------------------------------ PreCommitConfigYaml.extend
(* A hook is its id (HookConfigBlock.__eq__ compares nothing else).  A     *)
(* RepoConfigBlock is [repo, hooks]; a PreCommitConfigYaml is the sequence *)
(* of its repos.                                                           *)
HookIds == {"a", "b"}
RepoNames == {"local", " Local ", "other"}

\* str.strip().lower() on the repo names of the model.
StripLower(name) == IF name = " Local " THEN "local" ELSE name

FAILED_OP == "FAILED_OP"
FINISH_OP == "FINISH_OP"
\* bool(sentinel): FailedOpSentinel is falsy, CompletedOpSentinel truthy.
Truthy(sentinel) == sentinel = FINISH_OP

Ids(hooks) == {hooks[i] : i \in 1..Len(hooks)}
UniqueIds(hooks) == Cardinality(Ids(hooks)) = Len(hooks)

HookSeqs(n) == UNION {[1..k -> HookIds] : k \in 0..n}

\* The documents extend is called on hold each hook id once per repo.
DestRepos ==
    {[repo |-> r, hooks |-> h] :
        r \in RepoNames, h \in {x \in HookSeqs(Cardinality(HookIds)) : UniqueIds(x)}}
Documents == UNION {[1..n -> DestRepos] : n \in 0..MaxRepos}

\* The repo block handed to extend: any name, any list of hooks.
SourceBlocks == {[repo |-> r, hooks |-> h] : r \in RepoNames, h \in HookSeqs(MaxSrcHooks)}

_matches_name(repo_name, r) == StripLower(r.repo) = repo_name

\* for h in hooks: append h unless its id was in the repo before the loop.
RECURSIVE AppendNew(_, _, _)
AppendNew(exist_hooks, exist_hook_ids, hooks) ==
    IF hooks = <<>> THEN exist_hooks
    ELSE IF Head(hooks) \in exist_hook_ids
    THEN AppendNew(exist_hooks, exist_hook_ids, Tail(hooks))
    ELSE AppendNew(Append(exist_hooks, Head(hooks)), exist_hook_ids, Tail(hooks))

\* The ids extend warns about: those of the source already in the repo.
Dups(exist_hook_ids, hooks) == SelectSeq(hooks, LAMBDA h : h \in exist_hook_ids)

\* The index extend works on (1-based): the first repo whose name matches,
\* else max(len(self.repos) - 1, 0), the last repo.
ExtendIdx(repos_, repo_name) ==
    LET hits == {n \in 1..Len(repos_) : _matches_name(repo_name, repos_[n])} IN
    IF hits # {} THEN CHOOSE n \in hits : \A m \in hits : n <= m
    ELSE (IF Len(repos_) - 1 > 0 THEN Len(repos_) - 1 ELSE 0) + 1

\* extend: the document after the call, the sentinel returned, the ids
\* warned about, or the IndexError of self.repos[idx] on an empty document.
extend(repos_, repo_block) ==
    LET idx == ExtendIdx(repos_, repo_block.repo) IN
    IF idx > Len(repos_)
    THEN [exc |-> "IndexError", repos |-> repos_, ret |-> "unset", warned |-> <<>>]
    ELSE LET exist_hook_ids == Ids(repos_[idx].hooks)
             exist_hooks == AppendNew(repos_[idx].hooks, exist_hook_ids,
                                      repo_block.hooks) IN
         [exc |-> "none",
          repos |-> [repos_ EXCEPT ![idx].hooks = exist_hooks],
          ret |-> IF Cardinality(exist_hook_ids) = Len(exist_hooks)
                  THEN FAILED_OP ELSE FINISH_OP,
          warned |-> Dups(exist_hook_ids, repo_block.hooks)]

\* append_hooks(repo_name, *hooks)
append_hooks(repos_, repo_name, hooks) ==
    extend(repos_, [repo |-> repo_name, hooks |-> hooks])

InitMerge ==
    /\ repos \in Documents
    /\ src \in SourceBlocks
    /\ mpc = "start"
    /\ mret = "unset"
    /\ mexc = "none"
    /\ warned = <<>>
    /\ prev_repos = <<>>
    /\ calls = 0
    /\ FutIdle
    /\ AnnIdle
    /\ MtcIdle
    /\ DrvIdle
    /\ RegIdle
    /\ LkpIdle
    /\ AtmIdle
    /\ EnvIdle
    /\ CfgIdle

Merged(r) ==
    /\ mpc' = IF r.exc = "none" THEN "done" ELSE "raised"
    /\ mexc' = r.exc
    /\ mret' = r.ret
    /\ warned' = r.warned
    /\ repos' = r.repos
    /\ prev_repos' = repos
    /\ calls' = calls + 1
    /\ UNCHANGED src
    /\ UNCHANGED notMrg

\* user_config.extend(repo_block)
Extend ==
    /\ mpc \in {"start", "done"}
    /\ calls < MaxCalls
    /\ Merged(extend(repos, src))

\* user_config.append_hooks(repo_name, *hooks)
AppendHooks ==
    /\ mpc \in {"start", "done"}
    /\ calls < MaxCalls
    /\ Merged(append_hooks(repos, src.repo, src.hooks))

NextMerge ==
    \/ Extend
    \/ AppendHooks

SpecMerge == InitMerge /\ [][NextMerge]_vars

\* ------------------------------------------------------------ write_atomic
\* A file name is the sequence of its dot-separated parts; a content is a
\* sequence of pieces of text, and Absent stands for no file.
Absent == <<"absent">>
Pieces == {"x", "y"}
Contents == UNION {[1..n -> Pieces] : n \in 0..MaxPieces}
Paths == {<<"cfg">>, <<"cfg", "yaml">>}

\* A name write_atomic could be made to write through instead.
with_suffix_unchanged(path) == path

\* path.with_suffix(path.suffix + ".tmp"): the name with ".tmp" appended.
with_suffix_tmp(path) == Append(path, "tmp")

Names == Paths \cup {with_suffix_tmp(p) : p \in Paths}

InitAtomic ==
    /\ a_path \in Paths
    /\ a_new \in Contents
    /\ a_prev \in Contents \cup {Absent}
    /\ a_fs = [n \in Names |-> IF n = a_path THEN a_prev ELSE Absent]
    /\ a_buf = <<>>
    /\ a_pc = "start"
    /\ AnnIdle
    /\ FutIdle
    /\ MrgIdle
    /\ MtcIdle
    /\ DrvIdle
    /\ RegIdle
    /\ LkpIdle
    /\ EnvIdle
    /\ CfgIdle

\* tmp.open("w", encoding="utf-8", newline="\n"): the temporary file is
\* created or truncated.
OpenTmp ==
    /\ a_pc = "start"
    /\ a_fs' = [a_fs EXCEPT ![with_suffix_tmp(a_path)] = <<>>]
    /\ a_pc' = "open"
    /\ UNCHANGED <<a_path, a_new, a_prev, a_buf>>
    /\ UNCHANGED notAtm

\* write_(f, new_content): the text goes to the buffer of the handle.
WriteContent ==
    /\ a_pc = "open"
    /\ a_buf' = a_new
    /\ a_pc' = "written"
    /\ UNCHANGED <<a_fs, a_path, a_new, a_prev>>
    /\ UNCHANGED notAtm

\* The handle flushes a piece of its buffer to the temporary file.
FlushPiece ==
    /\ a_pc = "written"
    /\ a_buf # <<>>
    /\ a_fs' = [a_fs EXCEPT ![with_suffix_tmp(a_path)] = Append(@, Head(a_buf))]
    /\ a_buf' = Tail(a_buf)
    /\ UNCHANGED <<a_path, a_new, a_prev, a_pc>>
    /\ UNCHANGED notAtm

\* The with block ends: the rest of the buffer is flushed and the handle
\* closed.
CloseTmp ==
    /\ a_pc = "written"
    /\ a_fs' = [a_fs EXCEPT ![with_suffix_tmp(a_path)] = @ \o a_buf]
    /\ a_buf' = <<>>
    /\ a_pc' = "closed"
    /\ UNCHANGED <<a_path, a_new, a_prev>>
    /\ UNCHANGED notAtm

\* tmp.replace(path): path takes the content of the temporary file, whose
\* name goes away.
Replace ==
    /\ a_pc = "closed"
    /\ LET tmp == with_suffix_tmp(a_path) IN
        a_fs' = IF tmp = a_path THEN a_fs
                ELSE [a_fs EXCEPT ![a_path] = a_fs[tmp], ![tmp] = Absent]
    /\ a_pc' = "done"
    /\ UNCHANGED <<a_path, a_new, a_prev, a_buf>>
    /\ UNCHANGED notAtm

\* open, write or close raises (OSError, UnicodeEncodeError): the with block
\* drops the handle and the exception leaves write_atomic before the rename.
WriteFails ==
    /\ a_pc \in {"start", "open", "written"}
    /\ a_buf' = <<>>
    /\ a_pc' = "failed"
    /\ UNCHANGED <<a_fs, a_path, a_new, a_prev>>
    /\ UNCHANGED notAtm

\* The process stops before the rename.
StopBeforeRename ==
    /\ a_pc \in {"start", "open", "written", "closed"}
    /\ a_buf' = <<>>
    /\ a_pc' = "stopped"
    /\ UNCHANGED <<a_fs, a_path, a_new, a_prev>>
    /\ UNCHANGED notAtm

NextAtomic ==
    \/ OpenTmp
    \/ WriteContent
    \/ FlushPiece
    \/ CloseTmp
    \/ Replace
    \/ WriteFails
    \/ StopBeforeRename

SpecAtomic == InitAtomic /\ [][NextAtomic]_vars

\* ------------------------------------------------------------ env_skeleton
\* A str is the sequence of its characters.
EXPORT == <<"e", "x", "p", "o", "r", "t", " ">>

\* ord() of the characters that occur.
Ord(c) ==
    CASE c = " " -> 32 [] c = "#" -> 35 [] c = "=" -> 61 [] c = "A" -> 65
      [] c = "B" -> 66 [] c = "e" -> 101 [] c = "o" -> 111 [] c = "p" -> 112
      [] c = "r" -> 114 [] c = "s" -> 115 [] c = "t" -> 116 [] c = "x" -> 120

\* str.strip(), one side after the other.
RECURSIVE lstrip(_)
lstrip(s) == IF s # <<>> /\ Head(s) = " " THEN lstrip(Tail(s)) ELSE s

RECURSIVE rstrip(_)
rstrip(s) ==
    IF s # <<>> /\ s[Len(s)] = " " THEN rstrip(SubSeq(s, 1, Len(s) - 1)) ELSE s

strip(s) == rstrip(lstrip(s))

startswith(s, prefix) ==
    Len(s) >= Len(prefix) /\ SubSeq(s, 1, Len(prefix)) = prefix

\* str.removeprefix
removeprefix(s, prefix) ==
    IF startswith(s, prefix) THEN SubSeq(s, Len(prefix) + 1, Len(s)) ELSE s

\* str.find of one character: the 0-based index of its first occurrence, -1
\* without one.
find(s, c) ==
    LET hits == {i \in 1..Len(s) : s[i] = c} IN
    IF hits = {} THEN -1 ELSE (CHOOSE i \in hits : \A j \in hits : i <= j) - 1

\* s[:n] for n >= 0
SliceTo(s, n) == SubSeq(s, 1, IF n < Len(s) THEN n ELSE Len(s))

\* iter_env_var_names(p, include_eq_sign, strip_export) over the lines of
\* p.read_text().splitlines(): what it yields, in order.
RECURSIVE iter_env_var_names(_, _, _)
iter_env_var_names(lines, include_eq_sign, strip_export) ==
    IF lines = <<>> THEN <<>>
    ELSE LET l == Head(lines)
             ls == strip(l)
             offset == IF ~include_eq_sign THEN 0 ELSE 1
             idx == find(l, "=")
             _final == IF strip_export THEN removeprefix(ls, EXPORT) ELSE ls
             rest == iter_env_var_names(Tail(lines), include_eq_sign,
                                        strip_export) IN
         IF ls = <<>> \/ startswith(ls, <<"#">>) THEN rest
         ELSE IF idx = -1 THEN rest
         ELSE <<SliceTo(_final, idx + offset)>> \o rest

\* a < b as Python compares two str
RECURSIVE StrLess(_, _)
StrLess(a, b) ==
    IF b = <<>> THEN FALSE
    ELSE IF a = <<>> THEN TRUE
    ELSE IF Head(a) # Head(b) THEN Ord(Head(a)) < Ord(Head(b))
    ELSE StrLess(Tail(a), Tail(b))

\* sorted(): each element goes in front of the first one greater than it.
RECURSIVE InsertSorted(_, _)
InsertSorted(x, s) ==
    IF s = <<>> THEN <<x>>
    ELSE IF StrLess(x, Head(s)) THEN <<x>> \o s
    ELSE <<Head(s)>> \o InsertSorted(x, Tail(s))

RECURSIVE sorted(_)
sorted(s) == IF s = <<>> THEN <<>> ELSE InsertSorted(s[Len(s)], sorted(SubSeq(s, 1, Len(s) - 1)))

\* The lines of a .env file: assignments with and without leading
\* whitespace and `export `, a comment, a blank line, a line without `=`.
EnvNames == {<<"A">>, <<"B">>}
EnvValues == {<<>>, <<"s">>}
AssignLines ==
    {(IF ind THEN <<" ">> ELSE <<>>) \o (IF ex THEN EXPORT ELSE <<>>)
        \o n \o <<"=">> \o v :
        ind \in BOOLEAN, ex \in BOOLEAN, n \in EnvNames, v \in EnvValues}
EnvLines == AssignLines \cup {<<"#", "A", "=", "s">>, <<" ">>, <<"A">>}
EnvFiles == UNION {[1..n -> EnvLines] : n \in 0..MaxEnvLines}

InitSkeleton ==
    /\ e_env \in EnvFiles
    /\ e_skel = <<>>
    /\ e_pc = "start"
    /\ AnnIdle
    /\ FutIdle
    /\ MrgIdle
    /\ MtcIdle
    /\ DrvIdle
    /\ RegIdle
    /\ LkpIdle
    /\ AtmIdle
    /\ CfgIdle

\* main: every name of sorted(iter_env_var_names(base_env_path)) is written
\* to the skeleton file, followed by "\n".
Main ==
    /\ e_pc = "start"
    /\ LET names == sorted(iter_env_var_names(e_env, TRUE, TRUE)) IN
        e_skel' = [i \in 1..Len(names) |-> names[i] \o <<"\n">>]
    /\ e_pc' = "written"
    /\ UNCHANGED e_env
    /\ UNCHANGED notEnv

NextSkeleton == Main

SpecSkeleton == InitSkeleton /\ [][NextSkeleton]_vars

\* -------------------------------------------------------------- converters
\* The values of the optional fields: attribute values, and Missing for a
\* key a mapping does not hold.
None == [type |-> "NoneType", text |-> "None"]
Str(s) == [type |-> "str", text |-> s]
Bool(s) == [type |-> "bool", text |-> s]
Missing == [type |-> "missing", text |-> ""]

NoFile == <<>>
NoConfig == [repos |-> <<>>, minimum_pre_commit_version |-> Missing]

\* HookConfigBlock, RepoConfigBlock and PreCommitConfigYaml, with the fields
\* id, name and pass_filenames of a hook.
HookConfigBlock(id_, name_, pass_filenames_) ==
    [id |-> id_, name |-> name_, pass_filenames |-> pass_filenames_]
RepoConfigBlock(repo_, hooks_) == [repo |-> repo_, hooks |-> hooks_]
PreCommitConfigYaml(repos_, version_) ==
    [repos |-> repos_, minimum_pre_commit_version |-> version_]

\* The type the resolver of the loader gives a plain scalar.
ResolvePlain(text) ==
    IF text \in {"true", "True", "false", "False"} THEN "bool"
    ELSE IF text \in {"3"} THEN "int"
    ELSE IF text \in {"null", "~", ""} THEN "NoneType"
    ELSE "str"

\* How the dumper writes a scalar: a str that would not read back as the
\* same str when left plain is put in quotes.
represent_str(s) ==
    [style |-> IF ResolvePlain(s) # "str" \/ s \in {" Local "}
               THEN "single" ELSE "plain",
     text |-> s]
represent_bool(v) ==
    [style |-> "plain", text |-> IF v.text = "True" THEN "true" ELSE "false"]
represent(v) == IF v.type = "bool" THEN represent_bool(v) ELSE represent_str(v.text)

\* What the loader builds from a scalar.
construct(style, text) ==
    IF style = "single" THEN Str(text)
    ELSE IF ResolvePlain(text) = "bool"
    THEN Bool(IF text \in {"true", "True"} THEN "True" ELSE "False")
    ELSE IF ResolvePlain(text) = "int" THEN [type |-> "int", text |-> text]
    ELSE IF ResolvePlain(text) = "NoneType" THEN None
    ELSE Str(text)

\* A line of the text: the column of its key (of its dash when it opens a
\* sequence item), the key, and the scalar after it.
Line(ind, dash, key, tok) ==
    [ind |-> ind, dash |-> dash, key |-> key, style |-> tok.style, text |-> tok.text]
Block == [style |-> "block", text |-> ""]
FlowEmpty == [style |-> "flow", text |-> "[]"]
DocStart == Line(0, FALSE, "---", [style |-> "marker", text |-> ""])
DocEnd == Line(0, FALSE, "...", [style |-> "marker", text |-> ""])

\* conv.unstructure with _omit_unstructurer: a field at its default and the
\* fields marked omit are left out, field order kept.
Omit(v) == IF v = None THEN Missing ELSE v

unstructure_hook(h) ==
    [id |-> Str(h.id), name |-> Omit(h.name), pass_filenames |-> Omit(h.pass_filenames)]

unstructure_repo(r) ==
    [repo |-> Str(r.repo),
     has_hooks |-> r.hooks # <<>>,
     hooks |-> [i \in 1..Len(r.hooks) |-> unstructure_hook(r.hooks[i])]]

unstructure(config) ==
    [shape |-> "map",
     keys |-> IF config.minimum_pre_commit_version = None THEN <<"repos">>
              ELSE <<"repos", "minimum_pre_commit_version">>,
     minimum_pre_commit_version |-> Omit(config.minimum_pre_commit_version),
     repos |-> [n \in 1..Len(config.repos) |-> unstructure_repo(config.repos[n])]]

\* yaml.dump with indent(mapping=2, sequence=4, offset=2), explicit_start and
\* explicit_end.
HookLines(h, ind) ==
    LET entries == <<[key |-> "id", v |-> h.id], [key |-> "name", v |-> h.name],
                     [key |-> "pass_filenames", v |-> h.pass_filenames]>>
        present == SelectSeq(entries, LAMBDA e : e.v # Missing) IN
    [i \in 1..Len(present) |->
        Line(IF i = 1 THEN ind ELSE ind + 2, i = 1, present[i].key,
             represent(present[i].v))]

RECURSIVE HooksLines(_, _)
HooksLines(hs, ind) ==
    IF hs = <<>> THEN <<>>
    ELSE HookLines(Head(hs), ind) \o HooksLines(Tail(hs), ind)

RepoLines(r) ==
    <<Line(2, TRUE, "repo", represent(r.repo))>>
    \o (IF r.has_hooks
        THEN <<Line(4, FALSE, "hooks", Block)>> \o HooksLines(r.hooks, 6)
        ELSE <<>>)

RECURSIVE ReposLines(_)
ReposLines(rs) ==
    IF rs = <<>> THEN <<>> ELSE RepoLines(Head(rs)) \o ReposLines(Tail(rs))

KeyLines(d, key) ==
    IF key = "minimum_pre_commit_version"
    THEN <<Line(0, FALSE, key, represent(d.minimum_pre_commit_version))>>
    ELSE IF d.repos = <<>> THEN <<Line(0, FALSE, "repos", FlowEmpty)>>
    ELSE <<Line(0, FALSE, "repos", Block)>> \o ReposLines(d.repos)

yaml_dump(d) ==
    <<DocStart>>
    \o (IF d.shape = "seq" THEN HooksLines(d.hooks, 2)
        ELSE KeyLines(d, d.keys[1])
             \o (IF Len(d.keys) = 2 THEN KeyLines(d, d.keys[2]) ELSE <<>>))
    \o <<DocEnd>>

\* yaml.load: the document between the markers, as a sequence of hook
\* mappings or as the mapping of a configuration.
AtLevel(l, ind) == (l.dash /\ l.ind = ind) \/ (~l.dash /\ l.ind = ind + 2)

Nth(S, k) == CHOOSE i \in S : Cardinality({j \in S : j < i}) = k - 1

\* The items of a block sequence whose dashes stand in column ind.
Items(lines, ind) ==
    LET starts == {i \in 1..Len(lines) : lines[i].dash /\ lines[i].ind = ind}
        n == Cardinality(starts) IN
    [k \in 1..n |->
        SubSeq(lines, Nth(starts, k),
               IF k = n THEN Len(lines) ELSE Nth(starts, k + 1) - 1)]

Value(lines, key, ind) ==
    LET hits == {i \in 1..Len(lines) : lines[i].key = key /\ AtLevel(lines[i], ind)} IN
    IF hits = {} THEN Missing
    ELSE LET l == lines[CHOOSE i \in hits : TRUE] IN construct(l.style, l.text)

load_hook_mapping(item, ind) ==
    [id |-> Value(item, "id", ind), name |-> Value(item, "name", ind),
     pass_filenames |-> Value(item, "pass_filenames", ind)]

load_sequence(lines, ind) ==
    LET its == Items(lines, ind) IN
    [k \in 1..Len(its) |-> load_hook_mapping(its[k], ind)]

load_repo_mapping(item) ==
    LET has == \E i \in 1..Len(item) : item[i].key = "hooks" /\ AtLevel(item[i], 2) IN
    [repo |-> Value(item, "repo", 2),
     has_hooks |-> has,
     hooks |-> IF has THEN load_sequence(SelectSeq(item, LAMBDA l : l.ind >= 6), 6)
               ELSE <<>>]

yaml_load(text) ==
    LET body == SubSeq(text, 2, Len(text) - 1) IN
    IF body # <<>> /\ body[1].dash
    THEN [shape |-> "seq", hooks |-> load_sequence(body, 2)]
    ELSE LET top == SelectSeq(body, LAMBDA l : AtLevel(l, 0 - 2))
             its == Items(body, 2) IN
         [shape |-> "map",
          keys |-> [i \in 1..Len(top) |-> top[i].key],
          minimum_pre_commit_version |->
              Value(body, "minimum_pre_commit_version", 0 - 2),
          repos |-> [k \in 1..Len(its) |-> load_repo_mapping(its[k])]]

\* conv.structure of the fields: str(value) and bool(value) for a value
\* that is there, None for one that is not.
structure_optional_str(v) == IF v \in {Missing, None} THEN None ELSE Str(v.text)
structure_optional_bool(v) ==
    IF v \in {Missing, None} THEN None
    ELSE IF v.type = "bool" THEN v
    ELSE Bool(IF v.text = "" THEN "False" ELSE "True")

structure_hook(m) ==
    HookConfigBlock(m.id.text, structure_optional_str(m.name),
                    structure_optional_bool(m.pass_filenames))

\* __attrs_post_init__ of every hook built: self._repo.add_hook(self,
\* guard=True), _repo being the module repo block by default.
RECURSIVE RegisterAll(_, _)
RegisterAll(registry, hooks) ==
    IF hooks = <<>> THEN registry
    ELSE RegisterAll(add_hook(registry, Head(hooks), TRUE), Tail(hooks))

\* dump_config: the text written to path, or the exception of
\* des["repos"][0]["hooks"].
dump_config(config, hooks_only) ==
    LET des == unstructure(config) IN
    IF hooks_only
    THEN IF des.repos = <<>> THEN Raise("IndexError")
         ELSE IF ~des.repos[1].has_hooks THEN Raise("KeyError")
         ELSE Ok(yaml_dump([shape |-> "seq", hooks |-> des.repos[1].hooks]))
    ELSE Ok(yaml_dump(
            IF \E i \in 1..Len(des.keys) : des.keys[i] = "minimum_pre_commit_version"
            THEN [des EXCEPT !.keys = <<"minimum_pre_commit_version", "repos">>]
            ELSE des))

\* load_config: RepoConfigBlock.hooks is a list of HookConfigBlockProto, a
\* Protocol, for which the converter has no structure hook: an element of a
\* hooks list cannot be structured, and the validation error of the
\* converter is raised as PreCommitYamlValidationError. No hook is built.
load_config(text, registry) ==
    LET data == yaml_load(text) IN
    IF data.shape # "map"
       \/ \E n \in 1..Len(data.repos) : data.repos[n].hooks # <<>>
    THEN [exc |-> "PreCommitYamlValidationError", val |-> NoConfig,
          registry |-> registry]
    ELSE [exc |-> "none",
          val |-> PreCommitConfigYaml(
                      [n \in 1..Len(data.repos) |->
                          RepoConfigBlock(data.repos[n].repo.text, <<>>)],
                      structure_optional_str(data.minimum_pre_commit_version)),
          registry |-> registry]

\* load_hooks: every element is structured as a HookConfigBlock, which
\* registers itself with the module repo block.
load_hooks(text, registry) ==
    LET data == yaml_load(text) IN
    IF data.shape # "seq"
    THEN [exc |-> "PreCommitYamlValidationError", val |-> <<>>, registry |-> registry]
    ELSE LET x == [i \in 1..Len(data.hooks) |-> structure_hook(data.hooks[i])] IN
         [exc |-> "none", val |-> x, registry |-> RegisterAll(registry, x)]

\* The hooks declared with HookConfigBlock in the modules of ahooks.hooks.
PackageDecls == <<HookConfigBlock("allow-unused-required-imports", None, None)>>

\* get_module_precommit_repo: _load_all_hooks on the first call.
get_module_precommit_repo(registry, cached) ==
    IF cached THEN registry ELSE RegisterAll(registry, PackageDecls)

HookChoice ==
    {"add-from-future", "allow-unused-required-imports", "env-skeleton",
     "emit-requirements", "block-manual-req-edits"}

ChoiceSet(hook_choices) == {hook_choices[i] : i \in 1..Len(hook_choices)}

\* get_ahook_config on the module hooks as loaded.
get_ahook_config(hook_choices, module_hooks) ==
    IF hook_choices # <<>>
    THEN PreCommitConfigYaml(
            <<RepoConfigBlock("local",
                SelectSeq(module_hooks, LAMBDA h : h.id \in ChoiceSet(hook_choices)))>>,
            None)
    ELSE PreCommitConfigYaml(<<RepoConfigBlock("local", module_hooks)>>, None)

\* extend on hook blocks: the ids decide, the blocks are appended.
IdRepo(r) == [repo |-> r.repo, hooks |-> [i \in 1..Len(r.hooks) |-> r.hooks[i].id]]
IdRepos(rs) == [n \in 1..Len(rs) |-> IdRepo(rs[n])]

extend_blocks(repos_, repo_block) ==
    LET r == extend(IdRepos(repos_), IdRepo(repo_block)) IN
    IF r.exc # "none" THEN [exc |-> r.exc, ret |-> r.ret, repos |-> repos_]
    ELSE LET idx == ExtendIdx(IdRepos(repos_), repo_block.repo)
             exist_hook_ids == Ids(IdRepo(repos_[idx]).hooks) IN
         [exc |-> "none", ret |-> r.ret,
          repos |-> [repos_ EXCEPT ![idx].hooks =
                        @ \o SelectSeq(repo_block.hooks,
                                       LAMBDA h : h.id \notin exist_hook_ids)]]

\* dump_ahook_config, its last step: the extended configuration is dumped
\* and written to the path.
WriteExtended(loaded, t) ==
    IF t.exc # "none" THEN [loaded EXCEPT !.exc = t.exc]
    ELSE [loaded EXCEPT !.ret = FINISH_OP, !.file = t.val, !.wrote = TRUE]

\* dump_ahook_config, after extend: its sentinel decides whether to write.
AfterExtend(loaded, user_config, append_result, hooks_only) ==
    IF append_result.exc # "none"
    THEN [loaded EXCEPT !.exc = append_result.exc]
    ELSE IF ~Truthy(append_result.ret)
    THEN [loaded EXCEPT !.ret = FAILED_OP]
    ELSE WriteExtended(loaded,
                       dump_config([user_config EXCEPT !.repos = append_result.repos],
                                   hooks_only))

\* dump_ahook_config, the path exists and was loaded as ld. Without choices
\* the repo block of module_config is the module repo block itself, hooks
\* just registered included.
AfterLoad(unset, ld, module_config, hooks_only, hook_choices) ==
    IF ld.exc # "none" THEN [unset EXCEPT !.exc = ld.exc]
    ELSE LET user_config ==
                 IF ~hooks_only THEN ld.val
                 ELSE PreCommitConfigYaml(<<RepoConfigBlock("local", ld.val)>>, None)
             repo_block ==
                 IF hook_choices = <<>> THEN RepoConfigBlock("local", ld.registry)
                 ELSE module_config.repos[1] IN
         AfterExtend([unset EXCEPT !.registry = ld.registry], user_config,
                     extend_blocks(user_config.repos, repo_block), hooks_only)

\* dump_ahook_config(path, hooks_only, *hooks) on the text at path and the
\* module hooks as loaded.
dump_ahook_config(text, hooks_only, hook_choices, module_hooks) ==
    LET module_config == get_ahook_config(hook_choices, module_hooks)
        unset == [exc |-> "none", ret |-> "unset", file |-> text,
                  registry |-> module_hooks, wrote |-> FALSE] IN
    IF text = NoFile
    THEN WriteExtended(unset, dump_config(module_config, hooks_only))
    ELSE AfterLoad(unset,
                   IF ~hooks_only THEN load_config(text, module_hooks)
                   ELSE load_hooks(text, module_hooks),
                   module_config, hooks_only, hook_choices)

\* The configurations handed to dump_config.
YamlNames == {None, Str("true")}
YamlFlags == {None, Bool("False")}
YamlHooks ==
    {HookConfigBlock(i, n, p) : i \in HookIds, n \in YamlNames, p \in YamlFlags}
YamlRepos ==
    {RepoConfigBlock(r, h) :
        r \in RepoNames, h \in UNION {[1..k -> YamlHooks] : k \in 0..MaxYamlHooks}}
YamlConfigs ==
    {PreCommitConfigYaml(rs, v) :
        rs \in UNION {[1..k -> YamlRepos] : k \in 0..MaxYamlRepos},
        v \in {None, Str("3")}}

InitYaml ==
    /\ c_repo = <<>>
    /\ c_cached = FALSE
    /\ c_file = NoFile
    /\ c_obj \in YamlConfigs
    /\ c_hooks_only \in BOOLEAN
    /\ c_choices = <<>>
    /\ c_op = "none"
    /\ c_exc = "none"
    /\ c_ret = "unset"
    /\ c_wrote = FALSE
    /\ c_prev_file = NoFile
    /\ c_prev_repo = <<>>
    /\ c_prev_op = "none"
    /\ c_prev_exc = "none"
    /\ c_first = NoFile
    /\ c_pc = "start"
    /\ c_n = 0
    /\ AnnIdle
    /\ FutIdle
    /\ MrgIdle
    /\ MtcIdle
    /\ DrvIdle
    /\ RegIdle
    /\ LkpIdle
    /\ AtmIdle
    /\ EnvIdle

\* dump_config(config, path, hooks_only), on the configuration at hand.
DumpConfig ==
    /\ c_pc \in {"start", "loaded"}
    /\ LET t == dump_config(c_obj, c_hooks_only) IN
        /\ c_exc' = t.exc
        /\ c_file' = IF t.exc = "none" THEN t.val ELSE c_file
        /\ c_wrote' = (t.exc = "none")
        /\ c_first' = IF c_pc = "start" /\ t.exc = "none" THEN t.val ELSE c_first
        /\ c_pc' = IF t.exc # "none" THEN "raised"
                   ELSE IF c_pc = "start" THEN "dumped" ELSE "redumped"
    /\ c_op' = "dump_config"
    /\ c_prev_file' = c_file
    /\ c_prev_repo' = c_repo
    /\ c_prev_op' = c_op
    /\ c_prev_exc' = c_exc
    /\ c_n' = c_n + 1
    /\ UNCHANGED <<c_repo, c_cached, c_obj, c_hooks_only, c_choices, c_ret>>
    /\ UNCHANGED notCfg

\* The text is loaded again: load_config, or load_hooks with the hooks put
\* in a repo block named local.
LoadDumped ==
    /\ c_pc = "dumped"
    /\ LET ld == IF ~c_hooks_only THEN load_config(c_file, c_repo)
                 ELSE load_hooks(c_file, c_repo) IN
        /\ c_exc' = ld.exc
        /\ c_repo' = ld.registry
        /\ c_obj' = IF ld.exc # "none" THEN NoConfig
                    ELSE IF ~c_hooks_only THEN ld.val
                    ELSE PreCommitConfigYaml(<<RepoConfigBlock("local", ld.val)>>, None)
        /\ c_pc' = IF ld.exc # "none" THEN "raised" ELSE "loaded"
    /\ c_op' = IF c_hooks_only THEN "load_hooks" ELSE "load_config"
    /\ c_wrote' = FALSE
    /\ c_prev_file' = c_file
    /\ c_prev_repo' = c_repo
    /\ c_prev_op' = c_op
    /\ c_prev_exc' = c_exc
    /\ c_n' = c_n + 1
    /\ UNCHANGED <<c_cached, c_file, c_hooks_only, c_choices, c_ret, c_first>>
    /\ UNCHANGED notCfg

NextYaml ==
    \/ DumpConfig
    \/ LoadDumped

SpecYaml == InitYaml /\ [][NextYaml]_vars

\* The files a user has at path: configurations and hook lists, with the
\* hooks of the user and of the package.
UserHook == HookConfigBlock("black", None, None)
UserHookLists ==
    {<<UserHook>>, <<UserHook, UserHook>>, PackageDecls, PackageDecls \o <<UserHook>>}
UserConfigs ==
    {PreCommitConfigYaml(rs, None) :
        rs \in {<<>>} \cup {<<RepoConfigBlock(r, h)>> :
                               r \in {"local", "other"},
                               h \in UserHookLists \cup {<<>>}}}
UserFiles ==
    {dump_config(c, FALSE).val : c \in UserConfigs}
    \cup {dump_config(PreCommitConfigYaml(<<RepoConfigBlock("local", h)>>, None),
                      TRUE).val : h \in UserHookLists}

ChoiceTuples == UNION {[1..k -> HookChoice] : k \in 0..MaxChoices}

InitExport ==
    /\ c_repo = <<>>
    /\ c_cached = FALSE
    /\ c_file \in UserFiles \cup {NoFile}
    /\ c_obj = NoConfig
    /\ c_hooks_only \in BOOLEAN
    /\ c_choices \in ChoiceTuples
    /\ c_op = "none"
    /\ c_exc = "none"
    /\ c_ret = "unset"
    /\ c_wrote = FALSE
    /\ c_prev_file = NoFile
    /\ c_prev_repo = <<>>
    /\ c_prev_op = "none"
    /\ c_prev_exc = "none"
    /\ c_first = NoFile
    /\ c_pc = "ready"
    /\ c_n = 0
    /\ AnnIdle
    /\ FutIdle
    /\ MrgIdle
    /\ MtcIdle
    /\ DrvIdle
    /\ RegIdle
    /\ LkpIdle
    /\ AtmIdle
    /\ EnvIdle

\* What every operation of the export records.
Operation(op) ==
    /\ c_pc = "ready"
    /\ c_n < MaxExportOps
    /\ c_op' = op
    /\ c_prev_file' = c_file
    /\ c_prev_op' = c_op
    /\ c_prev_exc' = c_exc
    /\ c_n' = c_n + 1
    /\ UNCHANGED <<c_hooks_only, c_choices, c_first, c_pc>>
    /\ UNCHANGED notCfg

\* A module of ahooks.hooks is imported: its hook declarations run.
ImportHookModule ==
    /\ Operation("import")
    /\ c_repo' = RegisterAll(c_repo, PackageDecls)
    /\ c_prev_repo' = c_repo'
    /\ c_exc' = "none"
    /\ c_wrote' = FALSE
    /\ UNCHANGED <<c_cached, c_file, c_obj, c_ret>>

\* get_ahook_config(*hook_choices)
GetAhookConfig ==
    /\ Operation("get_ahook_config")
    /\ c_repo' = get_module_precommit_repo(c_repo, c_cached)
    /\ c_cached' = TRUE
    /\ c_prev_repo' = c_repo'
    /\ c_obj' = get_ahook_config(c_choices, c_repo')
    /\ c_exc' = "none"
    /\ c_wrote' = FALSE
    /\ UNCHANGED <<c_file, c_ret>>

\* dump_ahook_config(path, hooks_only, *hooks)
DumpAhookConfig ==
    /\ Operation("dump_ahook_config")
    /\ \E r \in {dump_ahook_config(c_file, c_hooks_only, c_choices,
                                   get_module_precommit_repo(c_repo, c_cached))} :
        /\ c_prev_repo' = get_module_precommit_repo(c_repo, c_cached)
        /\ c_repo' = r.registry
        /\ c_file' = r.file
        /\ c_exc' = r.exc
        /\ c_ret' = r.ret
        /\ c_wrote' = r.wrote
    /\ c_cached' = TRUE
    /\ UNCHANGED c_obj

\* load_config(path) on the file of the user
LoadConfig ==
    /\ c_file # NoFile
    /\ Operation("load_config")
    /\ LET ld == load_config(c_file, c_repo) IN
        /\ c_repo' = ld.registry
        /\ c_obj' = ld.val
        /\ c_exc' = ld.exc
    /\ c_prev_repo' = c_repo
    /\ c_wrote' = FALSE
    /\ UNCHANGED <<c_cached, c_file, c_ret>>

\* load_hooks(path) on the file of the user
LoadHooks ==
    /\ c_file # NoFile
    /\ Operation("load_hooks")
    /\ LET ld == load_hooks(c_file, c_repo) IN
        /\ c_repo' = ld.registry
        /\ c_obj' = IF ld.exc # "none" THEN NoConfig
                    ELSE PreCommitConfigYaml(<<RepoConfigBlock("local", ld.val)>>, None)
        /\ c_exc' = ld.exc
    /\ c_prev_repo' = c_repo
    /\ c_wrote' = FALSE
    /\ UNCHANGED <<c_cached, c_file, c_ret>>

NextExport ==
    \/ ImportHookModule
    \/ GetAhookConfig
    \/ DumpAhookConfig
    \/ LoadConfig
    \/ LoadHooks

SpecExport == InitExport /\ [][NextExport]_vars

Init ==
    \/ InitFuture
    \/ InitAnnotate
    \/ InitMerge
    \/ InitMatch
    \/ InitDriver
    \/ InitRegistry
    \/ InitLookup
    \/ InitAtomic
    \/ InitSkeleton
    \/ InitYaml
    \/ InitExport
Next ==
    \/ NextFuture
    \/ NextAnnotate
    \/ NextMerge
    \/ NextMatch
    \/ NextDriver
    \/ NextRegistry
    \/ NextLookup
    \/ NextAtomic
    \/ NextSkeleton
    \/ NextYaml
    \/ NextExport
Spec == Init /\ [][Next]_vars

\* ------------------------------------------- claims on add_from_future
FirstFromIsFuture(body) ==
    FromImports(body) # {} /\ body[FirstFrom(body)].kind = "future"

FirstFromIsOther(body) ==
    FromImports(body) # {} /\ body[FirstFrom(body)].kind = "from"

\* The module starts with a string expression, whatever its text.
HasLeadingDocstring(body) == Len(body) > 0 /\ body[1].kind \in {"doc", "edoc"}

\* The text parses and find_insertion_point reports "already present".
AlreadyPresent(text) ==
    Parse(text).ok /\ find_insertion_point(Parse(text).body) = NoLoc

\* A future import stands in the text above the first other from-import.
FutureBeforeFirstFrom(text) ==
    \E i \in 1..Len(text) :
        /\ text[i].kind = "future"
        /\ \A k \in 1..i : text[k].kind # "from"

\* C1: once _add_statement has rewritten a text, find_insertion_point on the
\* new text reports "already present", and a second _add_statement returns
\* None and leaves the text as it is.
C1_RewriteIdempotent ==
    /\ (pc = "done" /\ ret = "path") => AlreadyPresent(file)
    /\ (prev_ret = "path" /\ pc # "start") =>
            (pc = "done" /\ ret = "None" /\ ~opened /\ file = src_code)

\* C6: when the first top-level from-import is not the future import, the
\* rewritten text holds the future import above the line on which that
\* from-import starts.
C6_InsertedBeforeFirstFrom ==
    (pc = "done" /\ ret = "path" /\ FirstFromIsOther(Parse(src_code).body))
        => FutureBeforeFirstFrom(file)

\* C7: a rewrite interrupted between opening and closing the file leaves the
\* complete original text or the complete new text in the file.
C7_InterruptedWriteIsWhole ==
    pc = "crashed" => (file = src_code \/ file = _rewrite_file_with_future(src_code, loc))

\* C9: when the first top-level from-import is the future import,
\* find_insertion_point returns no location, whatever follows it, and
\* _add_statement returns None without opening the file for writing.
C9_FutureFirstIsNoOp ==
    (pc # "start" /\ Parse(src_code).ok /\ FirstFromIsFuture(Parse(src_code).body))
        => /\ loc = NoLoc
           /\ pc = "done"
           /\ ret = "None"
           /\ ~opened
           /\ file = src_code

\* C9 witness: a first run that returned None on a text whose future import
\* is followed by another from-import.
C9_Witness ==
    /\ pc = "done" /\ ret = "None" /\ runs = 1 /\ ~opened
    /\ LET body == Parse(src_code).body IN
        /\ FirstFromIsFuture(body)
        /\ \E i \in FromImports(body) : body[i].kind = "from"

\* C10: with no top-level from-import, the location is {index 1, line = end
\* line of the docstring} when the module starts with a docstring and
\* {index 0, line 0} when it does not.
C10_NoFromImportLocation ==
    (pc # "start" /\ Parse(src_code).ok /\ FromImports(Parse(src_code).body) = {})
        => LET body == Parse(src_code).body IN
           loc = IF HasLeadingDocstring(body)
                 THEN [idx |-> 1, lineno |-> body[1].end_lineno]
                 ELSE [idx |-> 0, lineno |-> 0]

\* The list index at which the inserted element lands.
SpliceIndex == Min(loc.lineno, Len(src_code))

\* C11: the inserted statement is preceded by a blank line exactly when it
\* is not spliced in as the first line of the file; spliced at line 0, the
\* new text is the statement, a blank line, then the original text.
C11_BlankLineIffNotFirst ==
    (pc = "done" /\ ret = "path") =>
        /\ SpliceIndex = 0 => file = <<FutureLine, Blank>> \o src_code
        /\ SpliceIndex # 0 =>
                \E p \in {SpliceIndex + 1, SpliceIndex + 2} :
                    /\ p <= Len(file)
                    /\ file[p] = FutureLine
                    /\ file[p - 1].kind = "blank"

C27_SplicedAtStatementBoundary ==
    (pc = "done" /\ ret = "path") =>
        /\ \A i \in 1..Len(Parse(src_code).body) :
                LET node == Parse(src_code).body[i] IN
                ~(node.lineno <= SpliceIndex /\ SpliceIndex < node.end_lineno)
        /\ Parse(file).ok

\* ------------------------------- claims on allow_unused_required_imports
\* The matching rule for a small statement: a direct import with a required
\* name, or a from-import whose module is a required simple name.
IsRequiredImport(stmt, R) ==
    \/ stmt.type = "Import" /\ \E n \in stmt.names : n.node = "Name" /\ n.text \in R
    \/ /\ stmt.type = "ImportFrom" /\ ~stmt.relative
       /\ stmt.module.node = "Name" /\ stmt.module.text \in R

\* A statement line of the tree holds a required import and no marker.
HasUnmarkedRequired(mod, R) ==
    \E i \in 1..Len(mod) :
        /\ mod[i].container = "SimpleStatementLine"
        /\ ~HasMarker(mod[i].comment)
        /\ \E k \in 1..Len(mod[i].body) : IsRequiredImport(mod[i].body[k], R)

\* C4: for every tree and required set, _add_comments returns a tree, and
\* called again on that tree it reports changed = false and returns the tree
\* it was given.
C4_AnnotateIdempotent ==
    /\ passes >= 1 => apc = "annotated"
    /\ passes >= 2 => (~changed /\ tree = prev_tree)

\* C5: _add_comments returns changed = true exactly when the tree it returns
\* differs from the one it was given, and returns true for a module holding
\* a required import on a line without the marker.
C5_ChangedIffMarked ==
    passes >= 1 =>
        /\ apc = "annotated" => (changed <=> tree # prev_tree)
        /\ HasUnmarkedRequired(prev_tree, reqs) => (apc = "annotated" /\ changed)

\* The matcher returns true for an import of a simple-statement line, given
\* the comment the line carries.
MatcherTrueOnLine(line, R) ==
    /\ line.container = "SimpleStatementLine"
    /\ \E i \in 1..Len(line.body) :
        \/ /\ line.body[i].type = "Import"
           /\ _import_needs_whitelist(line.body[i], Ok(line.comment), R).val
        \/ /\ line.body[i].type = "ImportFrom"
           /\ _importFrom_needs_whitelist(line.body[i], Ok(line.comment), R).val

\* C16: _add_comments returns a tree in which every simple-statement line
\* with an import the matcher accepts has the marker as its trailing comment
\* (once, however many of its imports match), every other line being as in
\* the input.
C16_MatchedLinesGetMarker ==
    passes >= 1 =>
        \A i \in 1..Len(prev_tree) :
            IF MatcherTrueOnLine(prev_tree[i], reqs)
            THEN /\ apc = "annotated"
                 /\ tree[i] = [prev_tree[i] EXCEPT !.comment = _WHITELIST_COMMENT]
            ELSE apc = "annotated" => tree[i] = prev_tree[i]

\* ------------------------------------------------ claims on the matchers
\* The statement a node of MatchNodes was parsed from.
StatementText(node) ==
    IF node = Import({Nm("os")}) THEN "import os"
    ELSE IF node = Import({Nm("os"), Nm("json")}) THEN "import os, json"
    ELSE IF node = Import({Attr("os.path")}) THEN "import os.path"
    ELSE IF node = ImportFrom(Nm("typing"), FALSE) THEN "from typing import Any"
    ELSE IF node = ImportFrom(Attr("os.path"), FALSE) THEN "from os.path import join"
    ELSE IF node = ImportFrom(Nm("typing"), TRUE) THEN "from .typing import Any"
    ELSE "from . import x"

\* C13: for a direct import, _import_needs_whitelist is true exactly when
\* the full name of one of the imported names is in the required set and the
\* trailing comment of the enclosing line does not contain the marker.
C13_ImportNeedsIffRequiredAndUnmarked ==
    (tpc = "matched" /\ t_node.type = "Import") =>
        (t_need <=> /\ \E n \in t_node.names : n.text \in t_reqs
                    /\ ~HasMarker(t_trailing))

\* C14: for a from-import, _importFrom_needs_whitelist is true exactly when
\* the module path is one simple name, not relative, that is in the required
\* set, and the marker is absent; for a dotted or relative module path it is
\* false.
C14_ImportFromNeedsIffSimpleModule ==
    (tpc = "matched" /\ t_node.type = "ImportFrom") =>
        (t_need <=> /\ t_node.module.node = "Name"
                    /\ ~t_node.relative
                    /\ t_node.module.text \in t_reqs
                    /\ ~HasMarker(t_trailing))

\* C15: a from-import whose statement text is an entry of the required set,
\* on a line without the marker, is reported as needing the marker.
C15_WholeStatementEntryMatches ==
    (/\ tpc = "matched"
     /\ t_node.type = "ImportFrom"
     /\ StatementText(t_node) \in t_reqs
     /\ ~HasMarker(t_trailing)) => t_need

\* -------------------------------------------------- claims on the lookup
\* Position of the nearest simple-statement line among the ancestors, 0
\* when there is none.
NearestLine(chain) ==
    LET at == {k \in 1..Len(chain) : chain[k] = "SimpleStatementLine"} IN
    IF at = {} THEN 0 ELSE CHOOSE k \in at : \A j \in at : k <= j

\* C28: the lookup yields the nearest enclosing simple-statement line, or
\* nothing when there is none, and _is_missing_whitelist_comment is true
\* exactly when there is no such line, or the line has no trailing comment,
\* or its comment does not contain the marker.
C28_LookupYieldsLineOrNothing ==
    /\ wpc = "looked" =>
            (w_exc = "none" /\ w_found = NearestLine(w_node.chain))
    /\ wpc = "tested" =>
            /\ w_exc = "none"
            /\ w_missing <=> \/ NearestLine(w_node.chain) = 0
                              \/ w_node.comment = "none"
                              \/ ~HasMarker(w_node.comment)

C18_ParseFailureSkipsOneFile ==
    (dpc \in {"done", "raised"} /\ \E i \in 1..Len(batch) : batch[i] = "parse_error")
        => pos > Len(batch)

\* ------------------------------------------------ claims on the registry
\* The first block of every id in a sequence of blocks, in order.
RECURSIVE FirstPerId(_)
FirstPerId(log) ==
    IF log = <<>> THEN <<>>
    ELSE IF \E j \in 1..(Len(log) - 1) : log[j].id = Last(log).id
         THEN FirstPerId(Front(log))
         ELSE Append(FirstPerId(Front(log)), Last(log))

\* C19: after any sequence of guarded registrations the hook list holds, for
\* every id registered, the first block registered with it and nothing else,
\* in order of first registration.
C19_OneEntryPerIdFirstWins == reg_hooks = FirstPerId(reg_log)

\* C19 witness: an id registered a second time with other fields, after
\* which another id was registered.
C19_Witness ==
    /\ Len(reg_hooks) = 2
    /\ \E i, j \in 1..Len(reg_log) :
        /\ i < j
        /\ j < Len(reg_log)
        /\ reg_log[i].id = reg_log[j].id
        /\ reg_log[i].name # reg_log[j].name

\* ------------------------------------------------------- claims on extend
\* Name matching as specified: case-insensitive and trimmed on both names.
NameMatches(a, b) == StripLower(a) = StripLower(b)

\* The first repo of the document whose name matches, 0 when none does.
MatchIdx(D, G) ==
    LET hits == {n \in 1..Len(D) : NameMatches(D[n].repo, G.repo)} IN
    IF hits = {} THEN 0 ELSE CHOOSE n \in hits : \A m \in hits : n <= m

NotIn(S, hooks) == SelectSeq(hooks, LAMBDA h : h \notin S)

WellFormed(D) == \A n \in 1..Len(D) : UniqueIds(D[n].hooks)

\* C2: when the document holds a repo whose name matches the source's,
\* extend appends to that repo exactly the source hooks whose id it did not
\* hold, warns about the others, and the repo holds no id twice afterwards.
C2_MergeDedup ==
    (calls >= 1 /\ WellFormed(prev_repos) /\ MatchIdx(prev_repos, src) # 0) =>
        LET n == MatchIdx(prev_repos, src)
            S == Ids(prev_repos[n].hooks) IN
        /\ mpc = "done"
        /\ repos = [prev_repos EXCEPT ![n].hooks = @ \o NotIn(S, src.hooks)]
        /\ Ids(warned) = Ids(src.hooks) \cap S
        /\ UniqueIds(repos[n].hooks)

\* C3: when no repo of the document matches the source's name (an empty
\* document included), extend appends the source as a new repo at the end
\* and leaves the repos before it as they were.
C3_UnmatchedAppendsRepo ==
    (calls >= 1 /\ MatchIdx(prev_repos, src) = 0) =>
        (mpc = "done" /\ repos = Append(prev_repos, src))

\* C8: extend returns the falsy sentinel exactly when a matching repo held
\* every source hook id already, and the truthy sentinel in every other
\* case, the source being added as a new repo included.
C8_SentinelIffAllDuplicates ==
    (calls >= 1 /\ WellFormed(prev_repos)) =>
        /\ mpc = "done"
        /\ mret \in {FAILED_OP, FINISH_OP}
        /\ ~Truthy(mret) <=>
              /\ MatchIdx(prev_repos, src) # 0
              /\ Ids(src.hooks) \subseteq
                    Ids(prev_repos[MatchIdx(prev_repos, src)].hooks)

\* C20: a source whose name equals the name of a repo of the document once
\* both are trimmed and lower-cased is merged into that repo: the source
\* hooks end up there and every other repo stays as it was.
C20_NameMatchTrimsBothSides ==
    (calls >= 1 /\ MatchIdx(prev_repos, src) # 0) =>
        LET n == MatchIdx(prev_repos, src) IN
        /\ mpc = "done"
        /\ Len(repos) = Len(prev_repos)
        /\ \A m \in 1..Len(repos) : m # n => repos[m] = prev_repos[m]
        /\ Ids(src.hooks) \subseteq Ids(repos[n].hooks)

\* hooks_ starts with the hooks of prefix, in the same order.
IsPrefix(prefix, hooks_) ==
    Len(prefix) <= Len(hooks_) /\ SubSeq(hooks_, 1, Len(prefix)) = prefix

\* C21: extend keeps every repo and hook of the document, in order; hooks
\* are added only at the end of the matched repo, or in a new repo at the
\* end of the document.
C21_ExtendKeepsExistingContent ==
    calls >= 1 =>
        /\ Len(repos) >= Len(prev_repos)
        /\ \A m \in 1..Len(prev_repos) :
                /\ repos[m].repo = prev_repos[m].repo
                /\ IsPrefix(prev_repos[m].hooks, repos[m].hooks)
                /\ repos[m].hooks # prev_repos[m].hooks
                        => m = MatchIdx(prev_repos, src)

\* C30: a source that holds a not yet present id more than once leaves the
\* repo it is merged into with that id once: extend and append_hooks keep
\* the hook ids of every repo unique.
C30_DuplicateSourceIdsAppendedOnce ==
    (calls >= 1 /\ WellFormed(prev_repos) /\ mpc = "done") =>
        \A m \in 1..Len(repos) : UniqueIds(repos[m].hooks)

\* ---------------------------------------------------- claims on write_atomic
\* C25: when writing the temporary file fails, or the process stops before
\* the rename, the file at path still holds the content it had when
\* write_atomic was called, in full; after write_atomic has returned it
\* holds exactly new_content.
C25_PathHoldsOldOrNew ==
    /\ a_pc \in {"start", "open", "written", "closed", "failed", "stopped"}
          => a_fs[a_path] = a_prev
    /\ a_pc = "done" => a_fs[a_path] = a_new

\* A write that failed with part of the new content in the temporary file,
\* over a file holding something else.
C25_Witness ==
    /\ a_pc = "failed"
    /\ a_prev \notin {Absent, a_new}
    /\ a_fs[with_suffix_tmp(a_path)] \notin {Absent, <<>>, a_new}
    /\ a_fs[a_path] = a_prev

\* ---------------------------------------------------- claims on env_skeleton
\* An assignment line: not blank, not a comment, with an `=`.
IsAssignment(l) ==
    /\ strip(l) # <<>>
    /\ ~startswith(strip(l), <<"#">>)
    /\ find(l, "=") # -1

\* The name an assignment line gives its variable: the text before the `=`,
\* leading whitespace and `export ` left out.
VarName(l) ==
    LET t == removeprefix(strip(l), EXPORT) IN SubSeq(t, 1, find(t, "="))

\* C26: the skeleton holds, for every assignment line of the .env file, the
\* name of the variable followed by `=` and nothing of its value, whether or
\* not the line starts with whitespace or `export `; so the skeleton is the
\* same for two .env files that differ only in values.
C26_SkeletonHoldsNamesOnly ==
    e_pc = "written" =>
        LET assigned == SelectSeq(e_env, IsAssignment)
            names == sorted([i \in 1..Len(assigned) |->
                                 VarName(assigned[i]) \o <<"=">>]) IN
        e_skel = [i \in 1..Len(names) |-> names[i] \o <<"\n">>]

\* ------------------------------------------------------ claims on converters
\* C23: a text dump_config produced is loaded without an exception
\* (load_config, or load_hooks when it holds the hooks only), and dumping
\* what was loaded gives the same text again.
C23_DumpLoadDumpSameText ==
    /\ c_pc = "raised" => c_op = "dump_config" /\ c_first = NoFile
    /\ c_pc = "redumped" => c_file = c_first

\* The hook ids of the group of a file that the package hooks are merged
\* into: the hooks of a hooks-only file, the first repo named local of a
\* configuration.
FileGroupIds(text, hooks_only) ==
    LET data == yaml_load(text) IN
    IF hooks_only
    THEN IF data.shape = "seq"
         THEN {data.hooks[i].id.text : i \in 1..Len(data.hooks)} ELSE {}
    ELSE IF data.shape # "map" THEN {}
    ELSE LET hits == {n \in 1..Len(data.repos) :
                         NameMatches(data.repos[n].repo.text, "local")} IN
         IF hits = {} THEN {}
         ELSE LET r == data.repos[CHOOSE n \in hits : \A m \in hits : n <= m] IN
              {r.hooks[i].id.text : i \in 1..Len(r.hooks)}

HasGroup(text, hooks_only) ==
    LET data == yaml_load(text) IN
    IF hooks_only THEN data.shape = "seq"
    ELSE data.shape = "map"
         /\ \E n \in 1..Len(data.repos) : NameMatches(data.repos[n].repo.text, "local")

\* The ids get_ahook_config exports for the choices, the package hooks
\* being loaded.
ExportedIds(hook_choices) ==
    LET hooks_ == get_ahook_config(hook_choices, c_prev_repo).repos[1].hooks IN
    {hooks_[i].id : i \in 1..Len(hooks_)}

\* C22: dump_ahook_config run again after a run that completed, with the
\* same arguments, returns the falsy sentinel, writes nothing and leaves the
\* file as it was; and so does any run on a file whose matching group holds
\* every hook id of the package hooks exported.
C22_SecondDumpIsNoOp ==
    (/\ c_op = "dump_ahook_config"
     /\ \/ c_prev_op = "dump_ahook_config" /\ c_prev_exc = "none"
        \/ /\ c_prev_file # NoFile
           /\ HasGroup(c_prev_file, c_hooks_only)
           /\ ExportedIds(c_choices) \subseteq FileGroupIds(c_prev_file, c_hooks_only))
    => /\ c_exc = "none"
       /\ c_ret = FAILED_OP
       /\ ~c_wrote
       /\ c_file = c_prev_file

\* C24: get_ahook_config(c1, ..., cn) returns one group, named local, with
\* one hook for each distinct choice and no other; without choices it holds
\* one hook for every declared hook choice.
C24_ExportsExactlyTheChoices ==
    c_op = "get_ahook_config" =>
        /\ c_exc = "none"
        /\ Len(c_obj.repos) = 1
        /\ c_obj.repos[1].repo = "local"
        /\ LET hooks_ == c_obj.repos[1].hooks
               wanted == IF c_choices = <<>> THEN HookChoice ELSE ChoiceSet(c_choices) IN
            /\ {hooks_[i].id : i \in 1..Len(hooks_)} = wanted
            /\ Len(hooks_) = Cardinality(wanted)

\* C29: load_config, load_hooks and dump_ahook_config (extend included) on
\* the file of a user leave the module repo block as the hook declarations
\* made it: no entry added, removed or moved.
C29_UserFileLeavesRegistryAlone ==
    c_op \in {"load_config", "load_hooks", "dump_ahook_config"} =>
        c_repo = c_prev_repo

====
